---- MODULE Spec2Model ----
(***************************************************************************)
(* Model of the OPA policy generator's Lambda back end:                    *)
(*   src/infrastructure/lambda/index.js          (HTTP handlers, stream    *)
(*                                                synthesis)               *)
(*   src/infrastructure/lambda/agent-core-simple.js (its second, complete  *)
(*                                                class: lines 400-903)    *)
(* and of the browser hook that reads its streamed responses:              *)
(*   src/frontend/src/components/PolicyHistory.tsx (useStreamingPolicy,    *)
(*                                                lines 606-800)           *)
(*                                                                         *)
(* Specifications: Spec (the Lambda process), SpecNorm (the normalizer     *)
(* over raw completion texts), SpecWait (the pending provider call),       *)
(* SpecPrompt (the system prompt builder), SpecClient (the browser hook).  *)
(*                                                                         *)
(* A JavaScript string is a sequence of one-character strings; every       *)
(* JavaScript value is a tagged record (JStr, JNum, JBool, JNull, JUndef,  *)
(* JArr, JObj), so that duck-typed code (policy || '', typeof policy ===   *)
(* 'string', x.length) is computed as the interpreter computes it.         *)
(*                                                                         *)
(* A value a function computes once and reads several times (a const of    *)
(* the JavaScript) is passed on as the argument of a helper operator       *)
(* named after the step it continues.                                      *)
(***************************************************************************)
EXTENDS Integers, Sequences, FiniteSets, TLC

(***************************************************************************)
(* Characters                                                              *)
(***************************************************************************)
BS == "\\"
QT == "\""
NL == "\n"
TAB == "\t"
CR == "\r"
FF == "\f"
SP == " "
APOS == "'"
\* The backquote character (U+0060), which a TLA+ string cannot hold.
BT == "<backquote>"

\* JavaScript's \s as far as the modelled texts go.
IsSpace(c) == c \in {SP, NL, TAB, CR, FF}

UPPER == <<"A","B","C","D","E","F","G","H","I","J","K","L","M",
           "N","O","P","Q","R","S","T","U","V","W","X","Y","Z">>
LOWER == <<"a","b","c","d","e","f","g","h","i","j","k","l","m",
           "n","o","p","q","r","s","t","u","v","w","x","y","z">>

\* String.prototype.toLowerCase on one character.
LowerChar(c) ==
  IF \E i \in 1..26 : UPPER[i] = c
  THEN LOWER[CHOOSE i \in 1..26 : UPPER[i] = c]
  ELSE c

ToLowerCase(s) == [i \in 1..Len(s) |-> LowerChar(s[i])]

(***************************************************************************)
(* String primitives                                                       *)
(***************************************************************************)
\* s.startsWith(p, i-1): p occurs in s at (1-based) position i.
MatchAt(s, p, i) ==
  /\ i >= 1
  /\ i + Len(p) - 1 <= Len(s)
  /\ \A k \in 1..Len(p) : s[i + k - 1] = p[k]

\* s.indexOf(p) from position from, 1-based; 0 when absent.
IndexFrom(s, p, from) ==
  IF \E i \in from..(Len(s) - Len(p) + 1) : MatchAt(s, p, i)
  THEN CHOOSE i \in from..(Len(s) - Len(p) + 1) :
         /\ MatchAt(s, p, i)
         /\ \A j \in from..(i - 1) : ~MatchAt(s, p, j)
  ELSE 0

Includes(s, p) == IndexFrom(s, p, 1) > 0

StartsWith(s, p) == MatchAt(s, p, 1)

\* Suffix of s from position i (s.slice(i-1)).
From(s, i) == IF i > Len(s) THEN <<>> ELSE SubSeq(s, i, Len(s))

\* Prefix of s before position i (s.slice(0, i-1)).
Before(s, i) == IF i <= 1 THEN <<>> ELSE SubSeq(s, 1, i - 1)

MinOf(S) == CHOOSE x \in S : \A y \in S : x <= y

MaxOf(S) == CHOOSE x \in S : \A y \in S : y <= x

\* Length of the longest run of characters of C starting at position i.
RunIn(s, i, C) == MinOf({j \in i..(Len(s) + 1) : j > Len(s) \/ s[j] \notin C}) - i

\* Length of the longest run of characters outside C starting at position i.
RunNotIn(s, i, C) == MinOf({j \in i..(Len(s) + 1) : j > Len(s) \/ s[j] \in C}) - i

RECURSIVE ReplaceAllFrom(_, _, _, _)
\* s.replace(/pat/g, rep) for a literal pattern: leftmost, non-overlapping,
\* the replacement text is not rescanned.
ReplaceAllFrom(s, pat, rep, i) ==
  LET j == IndexFrom(s, pat, i)
  IN IF j = 0 THEN From(s, i)
     ELSE SubSeq(s, i, j - 1) \o rep \o ReplaceAllFrom(s, pat, rep, j + Len(pat))

ReplaceAll(s, pat, rep) == ReplaceAllFrom(s, pat, rep, 1)

\* String.prototype.trimStart: s without its leading run of white space.
TrimStart(s) == From(s, 1 + RunIn(s, 1, {SP, NL, TAB, CR, FF}))

\* String.prototype.trimEnd: s up to its last character that is no white
\* space.
TrimEnd(s) ==
  IF \A i \in 1..Len(s) : IsSpace(s[i]) THEN <<>>
  ELSE SubSeq(s, 1, MaxOf({i \in 1..Len(s) : ~IsSpace(s[i])}))

\* String.prototype.trim
Trim(s) == TrimEnd(TrimStart(s))

(***************************************************************************)
(* JavaScript values                                                       *)
(***************************************************************************)
JUndef == [t |-> "undefined"]
JNull == [t |-> "null"]
JStr(s) == [t |-> "string", s |-> s]
JNum(n) == [t |-> "number", n |-> n]
JBool(b) == [t |-> "boolean", b |-> b]
JArr(items) == [t |-> "array", items |-> items]
\* members: a sequence of [k |-> key string, v |-> value], in source order.
JObj(members) == [t |-> "object", members |-> members]
Member(k, v) == [k |-> k, v |-> v]

\* typeof v === 'string'
IsString(v) == v.t = "string"

\* typeof v === 'object' && v !== null  (arrays are objects)
IsObjectLike(v) == v.t \in {"object", "array"}

\* ToBoolean
Truthy(v) ==
  CASE v.t = "undefined" -> FALSE
    [] v.t = "null" -> FALSE
    [] v.t = "string" -> v.s # <<>>
    [] v.t = "number" -> v.n # 0
    [] v.t = "boolean" -> v.b
    [] OTHER -> TRUE

\* a || b
Or(a, b) == IF Truthy(a) THEN a ELSE b

\* Property read v.k.  ok = FALSE is the TypeError of reading a property of
\* null or undefined; a missing property reads as undefined; duplicate keys
\* of a parsed object resolve to the last one.
GetProp(v, k) ==
  CASE v.t \in {"null", "undefined"} -> [ok |-> FALSE, v |-> JUndef]
    [] v.t = "object" ->
         LET hits == {i \in 1..Len(v.members) : v.members[i].k = k}
         IN [ok |-> TRUE,
             v |-> IF hits = {} THEN JUndef
                   ELSE v.members[CHOOSE i \in hits : \A j \in hits : j <= i].v]
    [] OTHER -> [ok |-> TRUE, v |-> JUndef]

\* x.length as a loop bound: the length of a string or an array; any
\* other value has length undefined, and i < undefined is false.
JsLength(v) ==
  CASE v.t = "string" -> Len(v.s)
    [] v.t = "array" -> Len(v.items)
    [] OTHER -> 0

\* x[i] for 0 <= i < x.length (i is 0-based).
JsIndex(v, i) ==
  CASE v.t = "string" -> JStr(<<v.s[i + 1]>>)
    [] v.t = "array" -> v.items[i + 1]
    [] OTHER -> JUndef

(***************************************************************************)
(* JSON.parse and JSON.stringify                                           *)
(*                                                                         *)
(* The grammar of ECMA-404 over the texts the model draws: objects, arrays,*)
(* strings with escapes, integers, true, false, null, insignificant white  *)
(* space.  The drawn texts hold no fraction or exponent.                   *)
(***************************************************************************)
DIGITS == <<"0","1","2","3","4","5","6","7","8","9">>

IsDigit(c) == \E d \in 1..10 : DIGITS[d] = c

DigitVal(c) == (CHOOSE d \in 1..10 : DIGITS[d] = c) - 1

IsHex(c) == IsDigit(c) \/ LowerChar(c) \in {"a","b","c","d","e","f"}

\* White space JSON allows between tokens.
IsJsonWs(c) == c \in {SP, NL, TAB, CR}

RECURSIVE SkipWs(_, _)
SkipWs(s, i) ==
  IF i <= Len(s) /\ IsJsonWs(s[i]) THEN SkipWs(s, i + RunIn(s, i, {SP, NL, TAB, CR})) ELSE i

ParseFail == [ok |-> FALSE, v |-> JUndef, next |-> 0]

ParseOk(v, next) == [ok |-> TRUE, v |-> v, next |-> next]

\* The character a \uXXXX escape denotes; code points outside the modelled
\* alphabet are one opaque character.
UnicodeChar(h) ==
  CASE h = <<"0","0","0","a">> -> NL
    [] h = <<"0","0","0","9">> -> TAB
    [] h = <<"0","0","2","2">> -> QT
    [] h = <<"0","0","5","c">> -> BS
    [] OTHER -> "?"

\* The character a two-character escape \e denotes.
EscapeChar(e) ==
  CASE e = "n" -> NL
    [] e = "t" -> TAB
    [] e = "r" -> CR
    [] e = "f" -> FF
    [] e = "b" -> "<backspace>"
    [] OTHER -> e

RECURSIVE ScanString(_, _, _)
\* The body of a string literal from position j (just after the opening
\* quote), acc the characters read so far.
ScanString(s, j, acc) ==
  IF j > Len(s) THEN ParseFail
  ELSE IF s[j] \notin {QT, BS, NL, TAB, CR, FF}
       THEN ScanString(s, j + RunNotIn(s, j, {QT, BS, NL, TAB, CR, FF}),
                       acc \o SubSeq(s, j, j + RunNotIn(s, j, {QT, BS, NL, TAB, CR, FF}) - 1))
  ELSE IF s[j] = QT THEN ParseOk(JStr(acc), j + 1)
  ELSE IF s[j] = BS THEN
    IF j + 1 > Len(s) THEN ParseFail
    ELSE IF s[j + 1] \in {QT, BS, "/", "n", "t", "r", "f", "b"}
         THEN ScanString(s, j + 2, Append(acc, EscapeChar(s[j + 1])))
    ELSE IF /\ s[j + 1] = "u"
            /\ j + 5 <= Len(s)
            /\ \A k \in 2..5 : IsHex(s[j + k])
         THEN ScanString(s, j + 6,
                         Append(acc, UnicodeChar(ToLowerCase(SubSeq(s, j + 2, j + 5)))))
    ELSE ParseFail
  ELSE ParseFail

RECURSIVE ScanDigits(_, _, _)
ScanDigits(s, j, acc) ==
  IF j <= Len(s) /\ IsDigit(s[j])
  THEN ScanDigits(s, j + 1, acc * 10 + DigitVal(s[j]))
  ELSE [n |-> acc, next |-> j]

NatFrom(d) == ParseOk(JNum(d.n), d.next)

\* The digits of a number token at j: 0 | [1-9][0-9]*
ParseNat(s, j) ==
  IF j > Len(s) \/ ~IsDigit(s[j]) THEN ParseFail
  ELSE IF s[j] = "0" THEN ParseOk(JNum(0), j + 1)
  ELSE NatFrom(ScanDigits(s, j, 0))

Negated(r) == IF r.ok THEN ParseOk(JNum(0 - r.v.n), r.next) ELSE ParseFail

\* A number token at i: an optional minus sign, then the digits.
ParseNumber(s, i) ==
  IF s[i] = "-" THEN Negated(ParseNat(s, i + 1)) ELSE ParseNat(s, i)

RECURSIVE ParseValue(_, _)
RECURSIVE ParseElements(_, _, _)
RECURSIVE ParseMembers(_, _, _)

\* After element e of an array, at the next token j.
ElementEnd(s, acc, e, j) ==
  IF j > Len(s) THEN ParseFail
  ELSE IF s[j] = "," THEN ParseElements(s, j + 1, Append(acc, e.v))
  ELSE IF s[j] = "]" THEN ParseOk(JArr(Append(acc, e.v)), j + 1)
  ELSE ParseFail

ElementRead(s, acc, e) ==
  IF ~e.ok THEN ParseFail ELSE ElementEnd(s, acc, e, SkipWs(s, e.next))

\* Elements of an array from position i (after "[" or ","), acc read so far.
ParseElements(s, i, acc) == ElementRead(s, acc, ParseValue(s, SkipWs(s, i)))

\* After member key : val of an object, at the next token j.
MemberEnd(s, acc, key, val, j) ==
  IF j > Len(s) THEN ParseFail
  ELSE IF s[j] = "," THEN ParseMembers(s, j + 1, Append(acc, Member(key.v.s, val.v)))
  ELSE IF s[j] = "}" THEN ParseOk(JObj(Append(acc, Member(key.v.s, val.v))), j + 1)
  ELSE ParseFail

MemberValue(s, acc, key, val) ==
  IF ~val.ok THEN ParseFail ELSE MemberEnd(s, acc, key, val, SkipWs(s, val.next))

\* After a member's key, at the next token c, which must be the colon.
MemberColon(s, acc, key, c) ==
  IF c <= Len(s) /\ s[c] = ":"
  THEN MemberValue(s, acc, key, ParseValue(s, SkipWs(s, c + 1)))
  ELSE ParseFail

MemberKey(s, acc, key) ==
  IF ~key.ok THEN ParseFail ELSE MemberColon(s, acc, key, SkipWs(s, key.next))

\* A member starts at token k, which must open a string.
MemberStart(s, acc, k) ==
  IF k <= Len(s) /\ s[k] = QT THEN MemberKey(s, acc, ScanString(s, k + 1, <<>>))
  ELSE ParseFail

\* Members of an object from position i (after "{" or ","), acc read so far.
ParseMembers(s, i, acc) == MemberStart(s, acc, SkipWs(s, i))

\* After "{" at i, the next token is at j.
ParseObject(s, i, j) ==
  IF j <= Len(s) /\ s[j] = "}" THEN ParseOk(JObj(<<>>), j + 1)
  ELSE ParseMembers(s, i + 1, <<>>)

\* After "[" at i, the next token is at j.
ParseArray(s, i, j) ==
  IF j <= Len(s) /\ s[j] = "]" THEN ParseOk(JArr(<<>>), j + 1)
  ELSE ParseElements(s, i + 1, <<>>)

\* One JSON value starting exactly at position i.
ParseValue(s, i) ==
  IF i > Len(s) THEN ParseFail
  ELSE IF s[i] = "{" THEN ParseObject(s, i, SkipWs(s, i + 1))
  ELSE IF s[i] = "[" THEN ParseArray(s, i, SkipWs(s, i + 1))
  ELSE IF s[i] = QT THEN ScanString(s, i + 1, <<>>)
  ELSE IF MatchAt(s, <<"t","r","u","e">>, i) THEN ParseOk(JBool(TRUE), i + 4)
  ELSE IF MatchAt(s, <<"f","a","l","s","e">>, i) THEN ParseOk(JBool(FALSE), i + 5)
  ELSE IF MatchAt(s, <<"n","u","l","l">>, i) THEN ParseOk(JNull, i + 4)
  ELSE IF s[i] = "-" \/ IsDigit(s[i]) THEN ParseNumber(s, i)
  ELSE ParseFail

\* The value r read from the start of s is the result when only white space
\* follows it.
WholeText(s, r) ==
  IF r.ok /\ SkipWs(s, r.next) > Len(s)
  THEN [ok |-> TRUE, v |-> r.v]
  ELSE [ok |-> FALSE, v |-> JUndef]

\* JSON.parse(text) for a string text: [ok, v]; ok = FALSE is the SyntaxError.
JsonParseText(s) == WholeText(s, ParseValue(s, SkipWs(s, 1)))

\* JSON.parse(x): a non-string argument is converted with String(x) first,
\* so JSON.parse(null) parses the text "null".
JsonParse(x) ==
  IF x.t = "string" THEN JsonParseText(x.s)
  ELSE IF x.t = "null" THEN [ok |-> TRUE, v |-> JNull]
  ELSE [ok |-> FALSE, v |-> JUndef]

RECURSIVE NatToStr(_)
NatToStr(n) ==
  IF n < 10 THEN <<DIGITS[n + 1]>>
  ELSE NatToStr(n \div 10) \o <<DIGITS[(n % 10) + 1]>>

\* JSON.stringify's quoting of one character of a string.
QuoteChar(c) ==
  CASE c = QT -> <<BS, QT>>
    [] c = BS -> <<BS, BS>>
    [] c = NL -> <<BS, "n">>
    [] c = TAB -> <<BS, "t">>
    [] c = CR -> <<BS, "r">>
    [] c = FF -> <<BS, "f">>
    [] OTHER -> <<c>>

RECURSIVE QuoteChars(_)
QuoteChars(s) ==
  IF s = <<>> THEN <<>>
  ELSE IF Len(s) = 1 THEN QuoteChar(s[1])
  ELSE QuoteChars(SubSeq(s, 1, Len(s) \div 2))
       \o QuoteChars(SubSeq(s, Len(s) \div 2 + 1, Len(s)))

QuoteString(s) == <<QT>> \o QuoteChars(s) \o <<QT>>

RECURSIVE Stringify(_)
RECURSIVE StringifyItems(_)
RECURSIVE StringifyMembers(_)

StringifyItems(items) ==
  IF items = <<>> THEN <<>>
  ELSE Stringify(Head(items))
       \o (IF Len(items) > 1 THEN <<",">> ELSE <<>>)
       \o StringifyItems(Tail(items))

StringifyMembers(ms) ==
  IF ms = <<>> THEN <<>>
  ELSE QuoteString(Head(ms).k) \o <<":">> \o Stringify(Head(ms).v)
       \o (IF Len(ms) > 1 THEN <<",">> ELSE <<>>)
       \o StringifyMembers(Tail(ms))

\* JSON.stringify(v), compact form, of a value that holds no undefined.
Stringify(v) ==
  CASE v.t = "string" -> QuoteString(v.s)
    [] v.t = "number" -> IF v.n < 0 THEN <<"-">> \o NatToStr(0 - v.n) ELSE NatToStr(v.n)
    [] v.t = "boolean" -> IF v.b THEN <<"t","r","u","e">> ELSE <<"f","a","l","s","e">>
    [] v.t = "array" -> <<"[">> \o StringifyItems(v.items) \o <<"]">>
    [] v.t = "object" -> <<"{">> \o StringifyMembers(v.members) \o <<"}">>
    [] OTHER -> <<"n","u","l","l">>

(***************************************************************************)
(* Regular-expression helpers                                              *)
(***************************************************************************)
\* The least position of S, 0 when S is empty (positions start at 1).
FirstOf(S) == IF S = {} THEN 0 ELSE MinOf(S)

\* The greatest position of S, 0 when S is empty.
LastOf(S) == IF S = {} THEN 0 ELSE MaxOf(S)

\* The result of String.prototype.match: [found, group].
NoMatch == [found |-> FALSE, group |-> <<>>]

Found(group) == [found |-> TRUE, group |-> group]

SpaceChars == {SP, NL, TAB, CR, FF}

Str_package == <<"p","a","c","k","a","g","e">>
Str_rego == <<"r","e","g","o">>
Str_policy == <<"p","o","l","i","c","y">>
Str_allow == <<"a","l","l","o","w">>
Str_rule == <<"r","u","l","e">>
Str_explanation == <<"e","x","p","l","a","n","a","t","i","o","n">>
Str_this_policy == <<"t","h","i","s",SP,"p","o","l","i","c","y">>
Str_the_policy == <<"t","h","e",SP,"p","o","l","i","c","y">>
Str_test_inputs == <<"t","e","s","t","_","i","n","p","u","t","s">>
Str_description == <<"d","e","s","c","r","i","p","t","i","o","n">>
Str_input == <<"i","n","p","u","t">>
Str_expected == <<"e","x","p","e","c","t","e","d">>
Str_Policy_generated_successfully ==
  <<"P","o","l","i","c","y",SP,"g","e","n","e","r","a","t","e","d",SP,
    "s","u","c","c","e","s","s","f","u","l","l","y">>
Str_domain == <<"d","o","m","a","i","n">>
Str_complexity == <<"c","o","m","p","l","e","x","i","t","y">>
Fence == <<BT, BT, BT>>

(***************************************************************************)
(* ensureCleanContent (index.js)                                           *)
(***************************************************************************)
\* content.replace(/\\n/g,'\n').replace(/\\"/g,'"').replace(/\\t/g,'    ')
\*        .replace(/\\r/g,'\r'); a non-string is returned as it is.
ensureCleanContent(content) ==
  IF ~IsString(content) THEN content
  ELSE JStr(ReplaceAll(ReplaceAll(ReplaceAll(ReplaceAll(content.s,
              <<BS, "n">>, <<NL>>),
              <<BS, QT>>, <<QT>>),
              <<BS, "t">>, <<SP, SP, SP, SP>>),
              <<BS, "r">>, <<CR>>))

(***************************************************************************)
(* The text extractors of agent-core-simple.js                             *)
(***************************************************************************)
\* The position at or after g where /\n?```/ first matches (the end of the
\* lazy group), 0 when the fence is never closed.
FenceClose(text, g) ==
  FirstOf({e \in g..Len(text) :
             \/ MatchAt(text, Fence, e)
             \/ (text[e] = NL /\ MatchAt(text, Fence, e + 1))})

\* 1 when a line feed stands at position i, else 0: the optional \n.
NlAt(text, i) == IF i <= Len(text) /\ text[i] = NL THEN 1 ELSE 0

\* The group starts after an opening fence at p whose optional "rego" has
\* length r, in the order the backtracking tries them.
GroupStarts(text, p, r) ==
  <<p + 3 + r + NlAt(text, p + 3 + r), p + 3 + r, p + 3 + NlAt(text, p + 3), p + 3>>

CodeBlockGroup(text, g) == Found(SubSeq(text, g, FenceClose(text, g) - 1))

CodeBlockPick(text, starts, k) ==
  IF k = 0 THEN NoMatch ELSE CodeBlockGroup(text, starts[k])

CodeBlockFrom(text, starts) ==
  CodeBlockPick(text, starts, FirstOf({k \in 1..4 : FenceClose(text, starts[k]) > 0}))

CodeBlockAt(text, p) ==
  IF p = 0 THEN NoMatch
  ELSE CodeBlockFrom(text,
         GroupStarts(text, p, IF MatchAt(text, Str_rego, p + 3) THEN 4 ELSE 0))

\* text.match(/```(?:rego)?\n?([\s\S]*?)\n?```/): [found, group].  The
\* optional parts are tried greedily and given back on failure.
CodeBlockMatch(text) == CodeBlockAt(text, IndexFrom(text, Fence, 1))

PackageFrom(text, q) == IF q = 0 THEN NoMatch ELSE Found(From(text, q))

\* text.match(/(package\s+[\s\S]*)/): [found, group].
PackageMatch(text) ==
  PackageFrom(text, FirstOf({q \in 1..Len(text) :
                               /\ MatchAt(text, Str_package, q)
                               /\ q + 7 <= Len(text)
                               /\ IsSpace(text[q + 7])}))

PolicyFromPackage(text, packageMatch) ==
  IF packageMatch.found THEN Trim(packageMatch.group) ELSE Trim(text)

PolicyFromCodeBlock(text, codeBlockMatch) ==
  IF codeBlockMatch.found THEN Trim(codeBlockMatch.group)
  ELSE PolicyFromPackage(text, PackageMatch(text))

extractPolicyFromText(text) == PolicyFromCodeBlock(text, CodeBlockMatch(text))

\* The characters the group of an explanation pattern stops at: [^"}\n]
ExplanationStop == {QT, "}", NL}

\* Where the group starts when the keyword ends just before position from
\* and a greedy run of k class characters follows: the run gives characters
\* back until the group can start; 0 when it cannot.
GroupStartAfterRun(text, from, k) ==
  LastOf({j \in from..(from + k) : j <= Len(text) /\ text[j] \notin ExplanationStop})

ClassGroupStart(text, lead, cls, q) ==
  GroupStartAfterRun(text, q + Len(lead), RunIn(text, q + Len(lead), cls))

ClassGroupAt(text, g) ==
  IF g = 0 THEN NoMatch
  ELSE Found(SubSeq(text, g, g + RunNotIn(text, g, ExplanationStop) - 1))

\* The match attempt that succeeds is the leftmost, at q (0: none).
ClassGroupAtHit(text, lead, cls, q) ==
  IF q = 0 THEN NoMatch ELSE ClassGroupAt(text, ClassGroupStart(text, lead, cls, q))

ClassGroupIn(text, lower, lead, cls) ==
  ClassGroupAtHit(text, lead, cls,
                  FirstOf({h \in 1..Len(text) :
                             /\ MatchAt(lower, lead, h)
                             /\ ClassGroupStart(text, lead, cls, h) > 0}))

\* /lead<cls>*([^"}\n]+)/i where cls is a character class: [found, group].
\* lead is the literal keyword, in lower case.
ClassThenGroupMatch(text, lead, cls) ==
  ClassGroupIn(text, ToLowerCase(text), lead, cls)

\* Where the group of /lead\s+([^.]+\.)/ starts when the keyword ends just
\* before position from, w white-space characters follow and the first full
\* stop at or after from is at dot (0: none): at least one white space is
\* consumed and at least one character is left before the full stop.
SentenceStartBefore(from, w, dot) ==
  LastOf({j \in (from + 1)..(from + w) : j <= dot - 1})

SentenceGroupStart(text, lead, q) ==
  SentenceStartBefore(q + Len(lead),
                      RunIn(text, q + Len(lead), SpaceChars),
                      FirstOf({d \in (q + Len(lead))..Len(text) : text[d] = "."}))

SentenceGroupAt(text, g) ==
  IF g = 0 THEN NoMatch
  ELSE Found(SubSeq(text, g, g + RunNotIn(text, g, {"."})))

SentenceGroupAtHit(text, lead, q) ==
  IF q = 0 THEN NoMatch ELSE SentenceGroupAt(text, SentenceGroupStart(text, lead, q))

SentenceGroupIn(text, lower, lead) ==
  SentenceGroupAtHit(text, lead,
                     FirstOf({h \in 1..Len(text) :
                                /\ MatchAt(lower, lead, h)
                                /\ SentenceGroupStart(text, lead, h) > 0}))

\* /lead\s+([^.]+\.)/i : [found, group]; lead in lower case.
SentenceAfterMatch(text, lead) == SentenceGroupIn(text, ToLowerCase(text), lead)

\* The four explanationPatterns matched against text, in order.
ExplanationPatterns(text) ==
  <<ClassThenGroupMatch(text, Str_explanation, {APOS, QT, ":"} \cup SpaceChars),
    SentenceAfterMatch(text, Str_this_policy),
    SentenceAfterMatch(text, Str_the_policy),
    ClassThenGroupMatch(text, Str_explanation \o <<":">>, SpaceChars)>>

\* s.replace(/['"]/g, '')
StripQuotes(s) == SelectSeq(s, LAMBDA c : c \notin {APOS, QT})

RECURSIVE SplitSentences(_, _)
\* text.split(/[.!?]+/): the pieces between runs of . ! ?; cur is the piece
\* being read.
SplitSentences(s, cur) ==
  IF s = <<>> THEN <<cur>>
  ELSE IF Head(s) \in {".", "!", "?"}
       THEN <<cur>> \o SplitSentences(From(s, 1 + RunIn(s, 1, {".", "!", "?"})), <<>>)
       ELSE SplitSentences(From(s, 1 + RunNotIn(s, 1, {".", "!", "?"})),
                           cur \o Before(s, 1 + RunNotIn(s, 1, {".", "!", "?"})))

\* s.trim().length > 20
LongSentence(s) == Len(Trim(s)) > 20

\* The sentence names policy, allow or rule.
TellingSentence(lower) ==
  Includes(lower, Str_policy) \/ Includes(lower, Str_allow) \/ Includes(lower, Str_rule)

SentencePick(sentences, i) ==
  IF i = 0 THEN Str_Policy_generated_successfully ELSE Trim(sentences[i])

\* The loop over the long sentences: the first telling one, else the default.
SentenceFallback(sentences) ==
  SentencePick(sentences,
               FirstOf({i \in 1..Len(sentences) : TellingSentence(ToLowerCase(sentences[i]))}))

PatternPick(text, matches, n) ==
  IF n # 0 THEN StripQuotes(Trim(matches[n].group))
  ELSE SentenceFallback(SelectSeq(SplitSentences(text, <<>>), LongSentence))

\* The loop over the patterns: the first with a match and a group.
ExplanationFrom(text, matches) ==
  PatternPick(text, matches,
              FirstOf({n \in 1..4 : matches[n].found /\ matches[n].group # <<>>}))

extractExplanationFromText(text) == ExplanationFrom(text, ExplanationPatterns(text))

\* The literal "test_inputs": of the test-input pattern.
TestInputsLead == <<QT>> \o Str_test_inputs \o <<QT, ":">>

\* Where the bracket of the test-input pattern must stand when the literal
\* matched at q: after the white space.
BracketAfter(text, q) ==
  q + Len(TestInputsLead) + RunIn(text, q + Len(TestInputsLead), SpaceChars)

\* The first "]" at or after position b, 0 when there is none.
BracketClose(text, b) == FirstOf({c \in b..Len(text) : text[c] = "]"})

ParsedOrEmpty(parsed) == IF parsed.ok THEN parsed.v ELSE JArr(<<>>)

TestInputsGroup(text, b) ==
  ParsedOrEmpty(JsonParseText(SubSeq(text, b, BracketClose(text, b))))

TestInputsAt(text, q) ==
  IF q = 0 THEN JArr(<<>>) ELSE TestInputsGroup(text, BracketAfter(text, q))

\* text.match(/"test_inputs":\s*(\[[\s\S]*?\])/), then JSON.parse of the
\* group; [] when nothing matches or the parse throws.
extractTestInputsFromText(text) ==
  TestInputsAt(text,
    FirstOf({q \in 1..Len(text) :
               /\ MatchAt(text, TestInputsLead, q)
               /\ BracketAfter(text, q) <= Len(text)
               /\ text[BracketAfter(text, q)] = "["
               /\ BracketClose(text, BracketAfter(text, q)) # 0}))

(***************************************************************************)
(* The response normalizer: parseGenerationResponse (agent-core-simple.js) *)
(*                                                                         *)
(* A record is [threw, policy, explanation, test_inputs]; threw = TRUE is  *)
(* an exception leaving the function.  The timestamp and the constant      *)
(* metadata of the JavaScript record are left out.                         *)
(***************************************************************************)
Record(policy, explanation, test_inputs) ==
  [threw |-> FALSE, policy |-> policy, explanation |-> explanation,
   test_inputs |-> test_inputs]

Thrown ==
  [threw |-> TRUE, policy |-> JUndef, explanation |-> JUndef, test_inputs |-> JUndef]

\* The replace chain without its last link: backslash-t is left alone.
CleanPolicy_NoTab(policy) ==
  IF ~IsString(policy) THEN policy
  ELSE JStr(ReplaceAll(ReplaceAll(policy.s,
              <<BS, "n">>, <<NL>>),
              <<BS, QT>>, <<QT>>))

\* policy.replace(/\\n/g,'\n').replace(/\\"/g,'"').replace(/\\t/g,'    ')
\* under its guard typeof policy === 'string'.
CleanPolicy(policy) ==
  IF ~IsString(policy) THEN policy
  ELSE JStr(ReplaceAll(ReplaceAll(ReplaceAll(policy.s,
              <<BS, "n">>, <<NL>>),
              <<BS, QT>>, <<QT>>),
              <<BS, "t">>, <<SP, SP, SP, SP>>))

\* explanation.replace(/\\"/g,'"').replace(/\\n/g,' ') under its guard
\* typeof explanation === 'string'.
CleanExplanation(explanation) ==
  IF ~IsString(explanation) THEN explanation
  ELSE JStr(ReplaceAll(ReplaceAll(explanation.s,
              <<BS, QT>>, <<QT>>),
              <<BS, "n">>, <<SP>>))

JsonMatchBetween(text, open, close) ==
  IF open = 0 \/ close < open THEN NoMatch ELSE Found(SubSeq(text, open, close))

\* response.match(/\{[\s\S]*\}/): from the first "{" to the last "}".
JsonMatch(text) ==
  JsonMatchBetween(text,
                   FirstOf({i \in 1..Len(text) : text[i] = "{"}),
                   LastOf({i \in 1..Len(text) : text[i] = "}"}))

\* explanation || this.extractExplanationFromText(text)
ExplanationOr(explanation, text) ==
  IF Truthy(explanation) THEN explanation ELSE JStr(extractExplanationFromText(text))

\* The try block, once JSON.parse(response) has returned parsed and
\* parsed.policy could be read.
DirectRecord(parsed, response) ==
  Record(CleanPolicy(Or(GetProp(parsed, Str_policy).v, JStr(<<>>))),
         ExplanationOr(CleanExplanation(Or(GetProp(parsed, Str_explanation).v, JStr(<<>>))),
                       response.s),
         Or(GetProp(parsed, Str_test_inputs).v, JArr(<<>>)))

\* policy || this.extractPolicyFromText(text)
PolicyOr(policy, text) ==
  IF Truthy(policy) THEN policy ELSE JStr(extractPolicyFromText(text))

\* extracted.test_inputs || this.extractTestInputsFromText(text)
TestInputsOr(testInputs, text) ==
  IF Truthy(testInputs) THEN testInputs ELSE extractTestInputsFromText(text)

\* The inner try of the catch block, once JSON.parse(jsonMatch[0]) has
\* returned extracted.
ExtractedRecord(extracted, text) ==
  Record(PolicyOr(CleanPolicy(Or(GetProp(extracted, Str_policy).v, JStr(<<>>))), text),
         ExplanationOr(CleanExplanation(Or(GetProp(extracted, Str_explanation).v, JStr(<<>>))),
                       text),
         TestInputsOr(GetProp(extracted, Str_test_inputs).v, text))

\* The last return of the catch block.
TextRecord(text) ==
  Record(JStr(extractPolicyFromText(text)),
         JStr(extractExplanationFromText(text)),
         extractTestInputsFromText(text))

\* The inner try/catch: extracted is JSON.parse(jsonMatch[0]).
ExtractedOrText(extracted, text) ==
  IF extracted.ok THEN ExtractedRecord(extracted.v, text) ELSE TextRecord(text)

CatchMatched(jsonMatch, text) ==
  IF jsonMatch.found THEN ExtractedOrText(JsonParseText(jsonMatch.group), text)
  ELSE TextRecord(text)

\* A catch block that rethrows: the normalizer without its fallbacks.
CatchBlock_Rethrow(response) == Thrown

\* The catch block.  response.match on a response that is no string is a
\* TypeError, which nothing catches.
CatchBlock(response) ==
  IF ~IsString(response) THEN Thrown
  ELSE CatchMatched(JsonMatch(response.s), response.s)

\* The try block: parsed is JSON.parse(response); a SyntaxError, or the
\* TypeError of reading parsed.policy off null, enters the catch block.
TryBlock(parsed, response) ==
  IF parsed.ok /\ GetProp(parsed.v, Str_policy).ok
  THEN DirectRecord(parsed.v, response)
  ELSE CatchBlock(response)

parseGenerationResponse(response) == TryBlock(JsonParse(response), response)

(***************************************************************************)
(* The prompt builder (agent-core-simple.js).  A prompt is the record of   *)
(* the pieces its template embeds; the template text itself is constant.   *)
(***************************************************************************)
OperationPrompts == {"generation", "refinement", "validation", "explanation"}

\* Names every object literal inherits from Object.prototype: looked up in
\* operationPrompts they give a function or an object, which is truthy.
ObjectPrototypeKeys == {"constructor", "toString", "valueOf", "hasOwnProperty", "__proto__"}

\* A buildSystemPrompt that throws for an operation it has no section for.
buildSystemPrompt_Throws(operation, context) ==
  IF operation \in OperationPrompts
  THEN [base |-> "expert OPA Rego policy generator", section |-> operation]
  ELSE [base |-> "", section |-> "UnsupportedOperation"]

\* basePrompt + (operationPrompts[operation] || ''): section names what is
\* appended, the operation's own text, the text of an inherited member
\* ("prototype"), or nothing.
buildSystemPrompt(operation, context) ==
  [base |-> "expert OPA Rego policy generator",
   section |-> IF operation \in OperationPrompts THEN operation
               ELSE IF operation \in ObjectPrototypeKeys THEN "prototype"
               ELSE ""]

buildUserPrompt(instructions, context) ==
  [template |-> "generate",
   instructions |-> instructions,
   existingPolicy |-> JUndef,
   domain |-> IF Truthy(GetProp(context, Str_domain).v)
              THEN GetProp(context, Str_domain).v ELSE JUndef,
   complexity |-> IF Truthy(GetProp(context, Str_complexity).v)
                  THEN GetProp(context, Str_complexity).v
                  ELSE JUndef]

buildRefinementPrompt(instructions, existingPolicy, context) ==
  [template |-> "refine",
   instructions |-> instructions,
   existingPolicy |-> existingPolicy,
   domain |-> JUndef,
   complexity |-> JUndef]


(***************************************************************************)
(* The stream synthesizer (index.js, handleStreamingGeneration and         *)
(* handleStreamingRefinement)                                              *)
(***************************************************************************)
NoRecord ==
  [threw |-> FALSE, policy |-> JUndef, explanation |-> JUndef, test_inputs |-> JUndef]

EmptyState == Record(JStr(<<>>), JStr(<<>>), JArr(<<>>))

\* No response is on its way.
NoStream ==
  [phase |-> "idle", sent |-> <<>>, body |-> <<>>, buffer |-> <<>>, dispatched |-> <<>>,
   cut |-> FALSE]

\* One event of the events array.  char and index are read for the two
\* character types only, data for start and complete only.
Event(type, char, index, data) ==
  [type |-> type, char |-> char, index |-> index, data |-> data]

\* The loop with its first iteration left out: the first character is lost.
CharEvents_SkipFirst(type, clean) ==
  IF ~Truthy(clean) THEN <<>>
  ELSE [i \in 1..(JsLength(clean) - 1) |-> Event(type, JsIndex(clean, i), i, NoRecord)]

\* The loop  for (i = 0; i < clean.length; i++) events.push({type, char:
\* clean[i], index: i})  under its guard  if (clean).
CharEvents(type, clean) ==
  IF ~Truthy(clean) THEN <<>>
  ELSE [i \in 1..JsLength(clean) |-> Event(type, JsIndex(clean, i - 1), i - 1, NoRecord)]

\* The events array, once cleanPolicy and cleanExplanation are computed.
EventsOf(result, cleanPolicy, cleanExplanation) ==
  <<Event("start", JUndef, 0, EmptyState)>>
  \o CharEvents("policy_char", cleanPolicy)
  \o CharEvents("explanation_char", cleanExplanation)
  \o <<Event("complete", JUndef, 0,
             [result EXCEPT !.policy = cleanPolicy, !.explanation = cleanExplanation])>>

\* The events array both streaming handlers build from the agent's result.
StreamEvents(result) ==
  EventsOf(result,
           ensureCleanContent(Or(result.policy, JStr(<<>>))),
           ensureCleanContent(Or(result.explanation, JStr(<<>>))))

(***************************************************************************)
(* State                                                                   *)
(***************************************************************************)
VARIABLES
  pc,          \* where the running invocation is: idle, getAgent, agentReady,
               \* awaitOpenAI, done
  req,         \* the running invocation's route, Accept and body fields
  agent,       \* globalAgent and the fields of the OPAPolicyAgent it holds
  prompts,     \* the (systemPrompt, userPrompt) pairs built for this request
  calls,       \* the chat.completions.create calls made for this request
  failure,     \* the error thrown inside the agent for this request, "" if none
  result,      \* generatePolicy's local result: the normalizer's record
  response,    \* the handler's return value
  served,      \* invocations completed so far in this process
  secret,      \* what this invocation saw of the key store: "unknown" until
               \* getAgent is awaited, then "ok" or "down" when it fetched the
               \* key, "unread" when the agent existed and no key was fetched
  raw,         \* message.content of the provider's answer to this request
  client,      \* the browser's useStreamingPolicy hook: its state, its abort
               \* controller and the response it is reading
  waited,      \* units of time the pending provider call has been awaited
  analyzed,    \* the request types analyzeRequestType gave, with their inputs
  invocations, \* the handlers running side by side in one process: where each
               \* stands in getAgent and what it saw of the agent it was handed
  interactions, \* the generatePolicy and refinePolicy calls made on the agent,
               \* in call order, each with whether it returned a record
  stream       \* one response body on its way from a streaming handler to the
               \* browser's read loop, character by character

vars == <<pc, req, agent, prompts, calls, failure, result, response, served, secret, raw,
          client, waited, analyzed, invocations, interactions, stream>>

\* Invocations one Lambda process serves in the model.
MaxRequests == 2

\* conversationHistory is cut to its last 10 entries.
HistoryLimit == 10

NoRequest ==
  [route |-> "", streaming |-> FALSE, instructions |-> JUndef,
   existing_policy |-> JUndef, policy |-> JUndef, context |-> JObj(<<>>)]

NoError == [error |-> "", code |-> "", details |-> ""]

NoResponse ==
  [statusCode |-> 0, contentType |-> "", error |-> NoError,
   result |-> NoRecord, events |-> <<>>]

\* A JSON error body with its status.
ErrorResponse(status, error, code, details) ==
  [statusCode |-> status, contentType |-> "application/json",
   error |-> [error |-> error, code |-> code, details |-> details],
   result |-> NoRecord, events |-> <<>>]

\* The 200 response of the non-streaming path: body JSON.stringify(result).
JsonResponse(r) ==
  [statusCode |-> 200, contentType |-> "application/json", error |-> NoError,
   result |-> r, events |-> <<>>]

\* The 200 response of the streaming path: body the events as SSE frames.
SseResponse(events) ==
  [statusCode |-> 200, contentType |-> "text/event-stream", error |-> NoError,
   result |-> NoRecord, events |-> events]

\* The state clearState sets (lastInstructions is left out of the object).
ClearedState ==
  [policy |-> JStr(<<>>), explanation |-> JStr(<<>>), testInputs |-> JArr(<<>>),
   isStreaming |-> FALSE, isComplete |-> FALSE, error |-> JNull,
   lastInstructions |-> JUndef]

\* The hook after mounting: phase is where handleStreamingRequest stands
\* (idle, fetch, reading, ended), controller whether abortControllerRef
\* holds a controller, aborted whether this request's signal is aborted,
\* body the events still on the wire, lines the events of the chunk read
\* that are not handled yet, applied the events handled for this request,
\* saved the sessions given to savePolicySession.
NoClient ==
  [state |-> ClearedState, controller |-> 0, requests |-> <<>>, saved |-> <<>>]

NewAgent ==
  [created |-> FALSE, initialized |-> FALSE, openai |-> FALSE,
   conversationHistory |-> <<>>, currentPolicy |-> JNull]

Init ==
  /\ pc = "idle"
  /\ req = NoRequest
  /\ agent = NewAgent
  /\ prompts = <<>>
  /\ calls = <<>>
  /\ failure = ""
  /\ result = NoRecord
  /\ response = NoResponse
  /\ served = 0
  /\ secret = "unknown"
  /\ raw = JUndef
  /\ client = NoClient
  /\ waited = 0
  /\ analyzed = <<>>
  /\ invocations = <<>>
  /\ interactions = <<>>
  /\ stream = NoStream

(***************************************************************************)
(* Inputs: the events API Gateway hands to the handler                     *)
(***************************************************************************)
Str_instructions == <<"i","n","s","t","r","u","c","t","i","o","n","s">>
Str_existing_policy == <<"e","x","i","s","t","i","n","g","_">> \o Str_policy
Str_context == <<"c","o","n","t","e","x","t">>

GENERATE == "POST /generate-policy"
REFINE == "POST /refine-policy"
VALIDATE == "POST /validate-policy"
EXPLAIN == "POST /explain-policy"

Routes == {GENERATE, REFINE, VALIDATE, EXPLAIN}

\* The routes whose handlers read the Accept header and call the normalizer.
PolicyRoutes == {GENERATE, REFINE}

\* The Accept header: acceptHeader.includes('text/event-stream') or not.
EVENT_STREAM == "text/event-stream"

Accepts == {EVENT_STREAM, "application/json"}

\* The instructions field of a body: absent, empty, one blank, a word, or
\* not a string.
InstructionValues == {JUndef, JStr(<<>>), JStr(<<SP>>), JStr(<<"a">>), JNum(5)}

ExistingPolicyValues == {JUndef, JStr(<<"p">>)}

\* The JSON object holding the fields that are present.
BodyObject(instructions, existing) ==
  JObj((IF instructions = JUndef THEN <<>> ELSE <<Member(Str_instructions, instructions)>>)
       \o (IF existing = JUndef THEN <<>> ELSE <<Member(Str_existing_policy, existing)>>))

\* The policy field of a validate or explain body: empty, a text, or not a
\* string.
PolicyFieldValues == {JStr(<<>>), JStr(<<"p">>), JNum(5)}

\* event.body: a JSON text, a text that is no JSON, the text null, or absent.
Bodies ==
  {JStr(Stringify(BodyObject(i, e))) : i \in InstructionValues, e \in ExistingPolicyValues}
  \cup {JStr(Stringify(JObj(<<Member(Str_policy, p)>>))) : p \in PolicyFieldValues}
  \cup {JStr(<<"x">>), JStr(<<"n","u","l","l">>), JUndef}

\* How the provider call can fail (the kinds of spec section 4.2); the
\* error's message is modelled by the kind's name.
FailureKinds == {"AuthFailure", "RateLimited", "ProviderError", "Timeout"}

(***************************************************************************)
(* The agent (agent-core-simple.js)                                        *)
(***************************************************************************)
\* if (this.conversationHistory.length > 10) slice(-10)
\* A cut that keeps the oldest entries.
LastEntries_Oldest(history) ==
  IF Len(history) > HistoryLimit
  THEN SubSeq(history, 1, HistoryLimit)
  ELSE history

LastEntries(history) ==
  IF Len(history) > HistoryLimit
  THEN SubSeq(history, Len(history) - HistoryLimit + 1, Len(history))
  ELSE history

\* updateContext(operation, instructions, result)
updateContext(a, operation, instructions, r) ==
  [a EXCEPT
     !.conversationHistory =
        LastEntries(Append(@, [operation |-> operation, instructions |-> instructions,
                               result |-> r])),
     !.currentPolicy = IF Truthy(r.policy) THEN r.policy ELSE @]

\* The operation name each agent method passes to buildSystemPrompt.
OperationOf(route) ==
  CASE route = REFINE -> "refinement"
    [] route = VALIDATE -> "validation"
    [] route = EXPLAIN -> "explanation"
    [] OTHER -> "generation"

\* The userPrompt template literal of validatePolicy / explainPolicy.
PolicyPrompt(route, policy) ==
  [template |-> IF route = VALIDATE THEN "validate" ELSE "explain", policy |-> policy]

\* The prompts the agent method of request r builds.
PromptsFor(r) ==
  [system |-> buildSystemPrompt(OperationOf(r.route), r.context),
   user |-> CASE r.route = REFINE ->
                   buildRefinementPrompt(r.instructions, r.existing_policy, r.context)
              [] r.route \in {VALIDATE, EXPLAIN} -> PolicyPrompt(r.route, r.policy)
              [] OTHER -> buildUserPrompt(r.instructions, r.context)]

(***************************************************************************)
(* The handlers (index.js)                                                 *)
(***************************************************************************)
\* The catch block of the non-streaming part of each handler.
HandlerCatch(route, message) ==
  CASE route = REFINE ->
         ErrorResponse(500, "Failed to refine OPA policy", "REFINEMENT_ERROR", message)
    [] route = VALIDATE ->
         ErrorResponse(500, "Policy validation failed", "VALIDATION_ERROR", message)
    [] route = EXPLAIN ->
         ErrorResponse(500, "Policy explanation failed", "EXPLANATION_ERROR", message)
    [] OTHER -> ErrorResponse(500, message, "GENERATION_ERROR", "")

\* The catch block of handleStreamingGeneration / handleStreamingRefinement.
StreamingCatch(route, message) ==
  IF route = REFINE
  THEN ErrorResponse(500, "Streaming refinement failed", "STREAMING_REFINEMENT_ERROR", message)
  ELSE ErrorResponse(500, "Streaming generation failed", "STREAMING_ERROR", message)

\* A streaming handler that had pushed events before the agent call threw
\* and returns them.
FailureResponse_Partial(r, message) ==
  IF r.streaming
  THEN SseResponse(<<Event("start", JUndef, 0, EmptyState)>>
                   \o CharEvents("policy_char", JStr(<<"p">>)))
  ELSE HandlerCatch(r.route, message)

\* What the handler returns when the agent call threw message.
FailureResponse(r, message) ==
  IF r.streaming THEN StreamingCatch(r.route, message) ELSE HandlerCatch(r.route, message)

\* What the handler returns for the agent's result res.
SuccessResponse(r, res) ==
  IF r.streaming THEN SseResponse(StreamEvents(res)) ELSE JsonResponse(res)

\* !x || typeof x !== 'string'
MissingOrNotString(x) == ~Truthy(x) \/ ~IsString(x)

\* isStreamingRequest; the validate and explain handlers do not read the
\* Accept header.
IsStreamingRequest(route, accept) == route \in PolicyRoutes /\ accept = EVENT_STREAM

\* const { instructions, existing_policy, context = {} } = body, or
\* const { policy, context = {} } = body, with the route and the Accept
\* header.
Destructured(route, accept, body) ==
  [route |-> route,
   streaming |-> IsStreamingRequest(route, accept),
   instructions |-> IF route \in PolicyRoutes THEN GetProp(body, Str_instructions).v
                    ELSE JUndef,
   existing_policy |-> IF route = REFINE THEN GetProp(body, Str_existing_policy).v
                       ELSE JUndef,
   policy |-> IF route \in PolicyRoutes THEN JUndef ELSE GetProp(body, Str_policy).v,
   context |-> IF GetProp(body, Str_context).v = JUndef THEN JObj(<<>>)
               ELSE GetProp(body, Str_context).v]

\* The message of the 400 response the field checks answer with, "" when
\* the fields pass.
InvalidInput(r) ==
  IF r.route = VALIDATE
  THEN (IF ~Truthy(r.policy) THEN "Policy is required for validation" ELSE "")
  ELSE IF r.route = EXPLAIN
  THEN (IF ~Truthy(r.policy) THEN "Policy is required for explanation" ELSE "")
  ELSE IF MissingOrNotString(r.instructions)
  THEN "Instructions are required and must be a string"
  ELSE IF r.route = REFINE /\ MissingOrNotString(r.existing_policy)
  THEN "Existing policy is required and must be a string"
  ELSE ""

\* The handler after the destructuring gave r and the checks gave invalid.
HandleChecked(r, invalid) ==
  /\ req' = r
  /\ IF invalid # ""
     THEN /\ response' = ErrorResponse(400, invalid, "INVALID_INPUT", "")
          /\ pc' = "done"
     ELSE /\ response' = NoResponse
          /\ pc' = "getAgent"

HandleFields(r) == HandleChecked(r, InvalidInput(r))

\* The handler after JSON.parse(event.body || '{}') gave parsed: a
\* SyntaxError, or the TypeError of destructuring null, goes to the catch.
HandleParsed(route, accept, parsed) ==
  IF ~parsed.ok \/ ~GetProp(parsed.v, Str_instructions).ok
  THEN /\ response' = HandlerCatch(route, IF parsed.ok THEN "TypeError" ELSE "SyntaxError")
       /\ pc' = "done"
       /\ req' = [NoRequest EXCEPT !.route = route,
                                   !.streaming = IsStreamingRequest(route, accept),
                                   !.context = JUndef]
  ELSE HandleFields(Destructured(route, accept, parsed.v))

\* Each POST handler up to await getAgent(): the body is parsed and the
\* required fields are checked.
Receive(route, accept, body) ==
  /\ pc = "idle"
  /\ served < MaxRequests
  /\ HandleParsed(route, accept, JsonParse(Or(body, JStr(<<"{", "}">>))))
  /\ UNCHANGED <<agent, prompts, calls, failure, result, served, secret, raw, client, waited, analyzed, invocations, interactions, stream>>

\* await getAgent(): the first invocation creates the agent, fetches the
\* key (which may fail: the agent then has no client) and initializes.
GetAgent(secretOk) ==
  /\ pc = "getAgent"
  /\ agent' = IF agent.created THEN agent
              ELSE [agent EXCEPT !.created = TRUE, !.initialized = TRUE,
                                 !.openai = secretOk]
  /\ secret' = IF agent.created THEN "unread" ELSE IF secretOk THEN "ok" ELSE "down"
  /\ pc' = "agentReady"
  /\ UNCHANGED <<req, prompts, calls, failure, result, response, served, raw, client, waited, analyzed, invocations, interactions, stream>>

\* The agent method up to the await in callOpenAI: the prompts
\* are built; without a client callOpenAI throws and the handler answers.
StartCompletion ==
  /\ pc = "agentReady"
  /\ prompts' = Append(prompts, PromptsFor(req))
  /\ IF agent.openai
     THEN /\ calls' = Append(calls, PromptsFor(req))
          /\ pc' = "awaitOpenAI"
          /\ UNCHANGED <<failure, response>>
     ELSE /\ failure' = "OpenAI client not initialized"
          /\ response' = FailureResponse(req, "OpenAI client not initialized")
          /\ pc' = "done"
          /\ UNCHANGED calls
  /\ UNCHANGED <<req, agent, result, served, secret, raw, client, waited, analyzed, invocations, interactions, stream>>

\* A generatePolicy that answers with the policy kept in policyContext from
\* an earlier request when there is one.
Normalized_Remembering(res) ==
  IF res.threw
  THEN /\ failure' = "TypeError"
       /\ response' = FailureResponse(req, "TypeError")
       /\ UNCHANGED <<agent, result>>
  ELSE /\ result' = [res EXCEPT !.policy = IF agent.currentPolicy # JNull
                                           THEN agent.currentPolicy ELSE @]
       /\ agent' = updateContext(agent, OperationOf(req.route), req.instructions, res)
       /\ response' = SuccessResponse(req, result')
       /\ UNCHANGED failure

\* generatePolicy / refinePolicy after parseGenerationResponse gave res (or
\* threw): the context is updated and the handler's response built.
Normalized(res) ==
  IF res.threw
  THEN /\ failure' = "TypeError"
       /\ response' = FailureResponse(req, "TypeError")
       /\ UNCHANGED <<agent, result>>
  ELSE /\ result' = res
       /\ agent' = updateContext(agent, OperationOf(req.route), req.instructions, res)
       /\ response' = SuccessResponse(req, res)
       /\ UNCHANGED failure

\* validatePolicy / explainPolicy after callOpenAI gave content: the answer
\* is returned as the explanation (the constant validation_results and the
\* structure_analysis are left out); explainPolicy reads policy.match,
\* a TypeError when the policy is no string.
Answered(content) ==
  /\ IF req.route = EXPLAIN /\ ~IsString(req.policy)
     THEN /\ failure' = "TypeError"
          /\ response' = HandlerCatch(req.route, "TypeError")
          /\ UNCHANGED result
     ELSE /\ result' = Record(JUndef, content, JUndef)
          /\ response' = JsonResponse(Record(JUndef, content, JUndef))
          /\ UNCHANGED failure
  /\ UNCHANGED agent

\* The provider answers with content (a text, or null): the agent method
\* goes on and the handler returns.
CompletionSucceeds(content) ==
  /\ pc = "awaitOpenAI"
  /\ raw' = content
  /\ IF req.route \in PolicyRoutes
     THEN Normalized(parseGenerationResponse(content))
     ELSE Answered(content)
  /\ pc' = "done"
  /\ UNCHANGED <<req, prompts, calls, served, secret, client, waited, analyzed, invocations, interactions, stream>>

\* A callOpenAI that sends the request once more when the call threw.
CompletionFails_Retry(kind) ==
  /\ pc = "awaitOpenAI"
  /\ Len(calls) < 2
  /\ calls' = Append(calls, PromptsFor(req))
  /\ UNCHANGED <<pc, req, agent, prompts, failure, result, response, served, secret, raw, client, waited, analyzed, invocations, interactions, stream>>

\* The provider call throws an error of the given kind.
CompletionFails(kind) ==
  /\ pc = "awaitOpenAI"
  /\ failure' = kind
  /\ response' = FailureResponse(req, kind)
  /\ pc' = "done"
  /\ UNCHANGED <<req, agent, prompts, calls, result, served, secret, raw, client, waited, analyzed, invocations, interactions, stream>>

\* The invocation ends; the process waits for the next event.
Return ==
  /\ pc = "done"
  /\ pc' = "idle"
  /\ req' = NoRequest
  /\ prompts' = <<>>
  /\ calls' = <<>>
  /\ failure' = ""
  /\ result' = NoRecord
  /\ response' = NoResponse
  /\ served' = served + 1
  /\ secret' = "unknown"
  /\ raw' = JUndef
  /\ waited' = 0
  /\ UNCHANGED <<analyzed, invocations, interactions, stream>>
  /\ UNCHANGED <<agent, client>>

(***************************************************************************)
(* What the provider is made to answer                                     *)
(***************************************************************************)
\* {"policy":"ab","explanation":"c"}
Text_ab_c ==
  <<"{",QT,"p","o","l","i","c","y",QT,":",QT,"a","b",QT,",",QT,"e","x","p",
    "l","a","n","a","t","i","o","n",QT,":",QT,"c",QT,"}">>

\* {"policy":""} : an empty policy
Text_EmptyPolicy ==
  <<"{",QT,"p","o","l","i","c","y",QT,":",QT,QT,"}">>

\* package a\nb : no JSON, with a literal backslash-n
Text_PackageEscaped ==
  <<"p","a","c","k","a","g","e",SP,"a",BS,"n","b">>

\* {"policy":["a","b"],"explanation":"c"} : the policy field is an array
Text_PolicyArray ==
  <<"{",QT,"p","o","l","i","c","y",QT,":","[",QT,"a",QT,",",QT,"b",QT,"]",
    ",",QT,"e","x","p","l","a","n","a","t","i","o","n",QT,":",QT,"c",QT,"}">>

\* {"policy":{"a":1}} : the policy field is an object
Text_PolicyObject ==
  <<"{",QT,"p","o","l","i","c","y",QT,":","{",QT,"a",QT,":","1","}","}">>

\* {"policy":"a","explanation":"c","test_inputs":[5]} : a bare test input
Text_BareTestInput ==
  <<"{",QT,"p","o","l","i","c","y",QT,":",QT,"a",QT,",",QT,"e","x","p","l",
    "a","n","a","t","i","o","n",QT,":",QT,"c",QT,",",QT,"t","e","s","t","_",
    "i","n","p","u","t","s",QT,":","[","5","]","}">>

\* explanation: } : no JSON; the explanation pattern captures one blank
Text_BlankExplanation ==
  <<"e","x","p","l","a","n","a","t","i","o","n",":",SP,"}">>

\* message.content of the answers drawn in Spec: texts, and null.
ProviderContents ==
  {JStr(Text_ab_c), JStr(Text_EmptyPolicy), JStr(Text_PackageEscaped),
   JStr(Text_PolicyArray), JStr(Text_PolicyObject), JStr(Text_BareTestInput),
   JStr(Text_BlankExplanation), JNull}

(***************************************************************************)
(* Spec: one Lambda process serving MaxRequests invocations in turn        *)
(***************************************************************************)
Next ==
  \/ \E route \in Routes, accept \in Accepts, body \in Bodies : Receive(route, accept, body)
  \/ \E secretOk \in BOOLEAN : GetAgent(secretOk)
  \/ StartCompletion
  \/ \E content \in ProviderContents : CompletionSucceeds(content)
  \/ \E kind \in FailureKinds : CompletionFails(kind)
  \/ Return

Spec == Init /\ [][Next]_vars


(***************************************************************************)
(* SpecNorm: the normalizer over a family of raw completion texts          *)
(*                                                                         *)
(* The process waits for the provider's answer to one valid generate       *)
(* request (the state Receive, GetAgent(TRUE) and StartCompletion lead to) *)
(* and the provider answers with any text of RawContents.                  *)
(***************************************************************************)
\* Longest policy text the provider's answers are built from.
MaxPolicyLen == 2

\* The characters policy texts are built from: a letter, the backslash, the
\* n of an escaped line feed, the t of an escaped tab, the quote.
PolicyAlphabet == {"a", BS, "n", "t", QT}

RECURSIVE TextsUpTo(_)
\* The texts over PolicyAlphabet of length at most n.
TextsUpTo(n) ==
  IF n = 0 THEN {<<>>}
  ELSE TextsUpTo(n - 1)
       \cup {Append(s, c) : s \in {x \in TextsUpTo(n - 1) : Len(x) = n - 1},
                            c \in PolicyAlphabet}

PolicyTexts == TextsUpTo(MaxPolicyLen)

\* {"policy":"a"} as the model would nest it inside a policy field.
NestedAnswer == JStr(Stringify(JObj(<<Member(Str_policy, JStr(<<"a">>))>>)))

\* The policy field of an answer: a text, or what a model that ignores the
\* format puts there.
PolicyValues ==
  {JStr(s) : s \in PolicyTexts}
  \cup {JArr(<<JStr(<<"a">>), JStr(<<"b">>)>>),
        JObj(<<Member(<<"a">>, JNum(1))>>),
        JNum(5), JNull, JUndef, NestedAnswer}

\* The explanation field: absent, a word, a text with an escaped line feed.
ExplanationValues == {JUndef, JStr(<<"c">>), JStr(<<"c", BS, "n", "d">>)}

\* An explanation with an escaped tab, quote and line feed.
EscapedExplanation == JStr(<<BS, "t", BS, QT, BS, "n">>)

\* The test_inputs field: absent, a bare entry, a full entry, an entry with
\* neither description nor expected, no array.
TestInputValues ==
  {JUndef,
   JArr(<<JNum(5)>>),
   JArr(<<JObj(<<Member(Str_description, JStr(<<"d">>)),
                 Member(Str_input, JObj(<<>>)),
                 Member(Str_expected, JBool(FALSE))>>)>>),
   JArr(<<JObj(<<Member(Str_input, JNum(1))>>)>>),
   JStr(<<"x">>)}

\* The JSON object an answer holds: the fields that are present, in the
\* order the prompt asks for.
AnswerObject(policy, explanation, testInputs) ==
  JObj((IF policy = JUndef THEN <<>> ELSE <<Member(Str_policy, policy)>>)
       \o (IF explanation = JUndef THEN <<>> ELSE <<Member(Str_explanation, explanation)>>)
       \o (IF testInputs = JUndef THEN <<>> ELSE <<Member(Str_test_inputs, testInputs)>>))

\* Every policy with a plain explanation, one plain policy with every
\* explanation and test_inputs, and every policy of one character with the
\* escaped explanation.
Answers ==
  {AnswerObject(p, JStr(<<"c">>), JUndef) : p \in PolicyValues}
  \cup {AnswerObject(JStr(<<"a">>), e, ti) : e \in ExplanationValues, ti \in TestInputValues}
  \cup {AnswerObject(JStr(<<c>>), EscapedExplanation, JUndef) : c \in PolicyAlphabet}

\* Ok, here it is:  -  prose a model puts before its JSON
Prose == <<"H","e","r","e",":",SP>>

\* A fenced block followed by a sentence, as the text fallback expects it.
Text_Fenced ==
  Fence \o Str_rego \o <<NL>> \o Str_package \o <<SP,"e","x",NL>> \o Fence \o <<NL>>
  \o <<"T","h","i","s",SP>> \o Str_policy \o <<SP,"d","e","n","i","e","s",SP,"a","l","l",".">>

\* A fenced block whose language tag is opa, with prose before it.
Text_FencedTagged ==
  <<"S","e","e",":",NL>> \o Fence \o <<"o","p","a",NL>> \o Str_package \o <<SP,"e","x",NL>>
  \o Fence

\* The word package at the end of the text, with nothing after it.
Text_PackageLast == <<"m","y",SP>> \o Str_package

\* A short sentence that names allow.
Text_ShortSentence == <<"A","l","l","o","w",SP,"a","l","l",".">>

\* A sentence of more than twenty characters that names allow.
Text_LongSentence ==
  <<"I","t",SP,"l","e","t","s",SP,"a","d","m","i","n","s",SP>> \o Str_allow
  \o <<SP,"r","e","a","d","s",".">>

\* {"policy":"a"} } : an answer object followed by a closing brace
Text_TrailingBrace ==
  Stringify(AnswerObject(JStr(<<"a">>), JUndef, JUndef)) \o <<SP, "}">>

\* Texts that are no answer object: empty, blank, JSON that is no object,
\* a fenced block with the tag rego and with another tag, the word package
\* at the end, a short and a long sentence, an answer with a brace after it.
OtherTexts ==
  {<<>>, <<SP>>, <<"5">>, <<"[","1","]">>, <<"n","u","l","l">>, <<"t","r","u","e">>,
   <<QT, "a", QT>>, <<"{">>, <<"}">>, <<"}", "{">>, Text_Fenced, Text_TrailingBrace,
   Text_FencedTagged, Text_PackageLast, Text_ShortSentence, Text_LongSentence}

\* message.content of the answers drawn in SpecNorm: each answer as JSON,
\* with prose before it, and cut one character short; a package line per
\* policy text; the other texts.
RawContents ==
  {JStr(Stringify(a)) : a \in Answers}
  \cup {JStr(Prose \o Stringify(a)) : a \in Answers}
  \cup {JStr(Before(Stringify(a), Len(Stringify(a)))) : a \in Answers}
  \cup {JStr(Str_package \o <<SP>> \o s) : s \in PolicyTexts}
  \cup {JStr(s) : s \in OtherTexts}

\* A valid generate request, streaming or not.
ValidRequest(streaming) ==
  [route |-> GENERATE, streaming |-> streaming, instructions |-> JStr(<<"a">>),
   existing_policy |-> JUndef, policy |-> JUndef, context |-> JObj(<<>>)]

InitNorm ==
  /\ pc = "awaitOpenAI"
  /\ \E streaming \in BOOLEAN : req = ValidRequest(streaming)
  /\ agent = [NewAgent EXCEPT !.created = TRUE, !.initialized = TRUE, !.openai = TRUE]
  /\ prompts = <<PromptsFor(req)>>
  /\ calls = <<PromptsFor(req)>>
  /\ failure = ""
  /\ result = NoRecord
  /\ response = NoResponse
  /\ served = 0
  /\ secret = "ok"
  /\ raw = JUndef
  /\ client = NoClient
  /\ waited = 0
  /\ analyzed = <<>>
  /\ invocations = <<>>
  /\ interactions = <<>>
  /\ stream = NoStream

NextNorm ==
  \/ \E content \in RawContents : CompletionSucceeds(content)
  \/ Return

SpecNorm == InitNorm /\ [][NextNorm]_vars


(***************************************************************************)
(* SpecWait: the handler while its provider call is pending                *)
(*                                                                         *)
(* Time is counted in units up to MaxWait, the horizon of the model.  The  *)
(* provider may answer, fail, or stay silent for another unit.             *)
(***************************************************************************)
MaxWait == 3

\* A unit of time passes while  await this.openai.chat.completions.create
\* is pending.  callOpenAI passes no timeout option and races the call
\* against no timer, so the passing of time enables no step of the handler:
\* the guard holds only the horizon of the model.
ProviderSilent ==
  /\ pc = "awaitOpenAI"
  /\ waited < MaxWait
  /\ waited' = waited + 1
  /\ UNCHANGED <<analyzed, invocations, interactions, stream>>
  /\ UNCHANGED <<pc, req, agent, prompts, calls, failure, result, response, served, secret,
                 raw, client>>

NextWait ==
  \/ ProviderSilent
  \/ \E content \in ProviderContents : CompletionSucceeds(content)
  \/ \E kind \in FailureKinds : CompletionFails(kind)
  \/ Return

SpecWait == InitNorm /\ [][NextWait]_vars


(***************************************************************************)
(* SpecPrompt: buildSystemPrompt over operation names                      *)
(*                                                                         *)
(* The agent is asked for the system prompt of up to MaxPrompts operation  *)
(* names in turn: the four it has a section for, the endpoint verbs,       *)
(* names it does not know, and names Object.prototype defines.  Each       *)
(* prompt built is kept with the name and the context it was built for.    *)
(***************************************************************************)
MaxPrompts == 2

OperationNames ==
  OperationPrompts \cup {"generate", "refine", "delete", "", "constructor", "toString"}

PromptContexts == {JObj(<<>>), JObj(<<Member(Str_domain, JStr(<<"d">>))>>)}

InitPrompt ==
  /\ pc = "prompt"
  /\ req = NoRequest
  /\ agent = [NewAgent EXCEPT !.created = TRUE, !.initialized = TRUE, !.openai = TRUE]
  /\ prompts = <<>>
  /\ calls = <<>>
  /\ failure = ""
  /\ result = NoRecord
  /\ response = NoResponse
  /\ served = 0
  /\ secret = "ok"
  /\ raw = JUndef
  /\ client = NoClient
  /\ waited = 0
  /\ analyzed = <<>>
  /\ invocations = <<>>
  /\ interactions = <<>>
  /\ stream = NoStream

\* this.buildSystemPrompt(operation, context): the function has no throw
\* statement and calls nothing, so no failure is recorded.
BuildPrompt(operation, context) ==
  /\ pc = "prompt"
  /\ Len(prompts) < MaxPrompts
  /\ prompts' = Append(prompts, [operation |-> operation, context |-> context,
                                  system |-> buildSystemPrompt(operation, context)])
  /\ UNCHANGED <<pc, req, agent, calls, failure, result, response, served, secret, raw, client, waited, analyzed, invocations, interactions, stream>>

NextPrompt ==
  \E operation \in OperationNames, context \in PromptContexts : BuildPrompt(operation, context)

SpecPrompt == InitPrompt /\ [][NextPrompt]_vars


(***************************************************************************)
(* SpecClient: the browser's streaming hook (PolicyHistory.tsx,            *)
(* useStreamingPolicy) reading the responses of the streaming handlers     *)
(*                                                                         *)
(* A step of the client is the code between two awaits: the fetch, one     *)
(* reader.read(), the handling of one event (which ends in the await of    *)
(* its display delay).  The user may press Cancel (abortStreaming) while   *)
(* the state shows isStreaming, and may send a request while it does not;  *)
(* an earlier call of handleStreamingRequest may then still be running.    *)
(***************************************************************************)
MaxSessions == 2

\* What the two streaming handlers answer: the event list of a record with a
\* policy and an explanation, and the answer of the catch block.
ClientResponses ==
  {SuccessResponse(ValidRequest(TRUE), parseGenerationResponse(JStr(Text_ab_c))),
   FailureResponse(ValidRequest(TRUE), "ProviderError")}

InitClient ==
  /\ pc = "idle"
  /\ req = NoRequest
  /\ agent = NewAgent
  /\ prompts = <<>>
  /\ calls = <<>>
  /\ failure = ""
  /\ result = NoRecord
  /\ response = NoResponse
  /\ served = 0
  /\ secret = "unknown"
  /\ raw = JUndef
  /\ client = NoClient
  /\ waited = 0
  /\ analyzed = <<>>
  /\ invocations = <<>>
  /\ interactions = <<>>
  /\ stream = NoStream

\* handleStreamingEvent(event): the state setState leaves.
ApplyEvent(s, event) ==
  CASE event.type = "start" ->
         [s EXCEPT !.policy = JStr(<<>>), !.explanation = JStr(<<>>),
                   !.testInputs = JArr(<<>>), !.isStreaming = TRUE,
                   !.isComplete = FALSE, !.error = JNull]
    [] event.type = "policy_char" ->
         [s EXCEPT !.policy = JStr(@.s \o event.char.s)]
    [] event.type = "explanation_char" ->
         [s EXCEPT !.explanation = JStr(@.s \o event.char.s)]
    [] event.type = "complete" ->
         [s EXCEPT !.policy = Or(event.data.policy, @),
                   !.explanation = Or(event.data.explanation, @),
                   !.testInputs = Or(event.data.test_inputs, JArr(<<>>)),
                   !.isStreaming = FALSE, !.isComplete = TRUE, !.error = JNull]
    [] OTHER -> s

\* The dependencies of the auto-save effect.
SaveDeps(s) == <<s.isComplete, s.policy, s.explanation, s.testInputs, s.lastInstructions>>

\* The auto-save effect after the state went from s to s2: when a
\* dependency changed and the state is complete with a policy and
\* instructions, the session is given to savePolicySession.
AutoSave(saved, s, s2) ==
  IF SaveDeps(s2) # SaveDeps(s) /\ s2.isComplete /\ Truthy(s2.policy)
     /\ Truthy(s2.lastInstructions)
  THEN Append(saved, [instructions |-> s2.lastInstructions, policy |-> s2.policy,
                      explanation |-> s2.explanation, testInputs |-> s2.testInputs])
  ELSE saved

ServerUnchanged ==
  UNCHANGED <<pc, req, agent, prompts, calls, failure, result, response, served, secret, raw,
              waited, analyzed, invocations, interactions, stream>>

\* A call of handleStreamingRequest at its await fetch.
NewRequest ==
  [phase |-> "fetch", aborted |-> FALSE, body |-> <<>>, lines |-> <<>>, applied |-> 0,
   waiting |-> FALSE]

\* The events after which handleStreamingEvent awaits a display delay.
TimedEvents == {"policy_char", "explanation_char"}

\* Request q runs between two awaits: it has lines to go through and waits
\* for no delay, or it was aborted in its loop and is about to call
\* reader.read().  The browser runs nothing else until it reaches an await.
Running(q) ==
  /\ q.phase = "reading"
  /\ ~q.waiting
  /\ (q.lines # <<>> \/ q.aborted)

\* No request of the client runs, except perhaps request i.
Quiet(i) ==
  \A j \in DOMAIN client.requests : j # i => ~Running(client.requests[j])

\* handleStreamingRequest up to await fetch: the state is cleared and set to
\* streaming, and a new AbortController is stored in abortControllerRef.
\* The form that calls it is disabled while isStreaming; the function
\* itself does not look at a request that is still running.
StartRequest(instructions) ==
  /\ pc = "idle"
  /\ ~client.state.isStreaming
  /\ Quiet(0)
  /\ Len(client.requests) < MaxSessions
  /\ client' = [client EXCEPT
                  !.state = [ClearedState EXCEPT !.isStreaming = TRUE,
                                                 !.lastInstructions = instructions],
                  !.controller = Len(client.requests) + 1,
                  !.requests = Append(@, NewRequest)]
  /\ ServerUnchanged

\* fetch of request i resolves with the handler's response r: a response
\* that is not ok is thrown as an Error, which the catch turns into the
\* error state and the finally block sets abortControllerRef.current to
\* null; otherwise the body is read.
FetchResolves(i, r) ==
  /\ i \in DOMAIN client.requests
  /\ Quiet(i)
  /\ client.requests[i].phase = "fetch"
  /\ ~client.requests[i].aborted
  /\ client' = IF r.statusCode \in 200..299
                THEN [client EXCEPT !.requests[i].phase = "reading",
                                    !.requests[i].body = r.events]
                ELSE [client EXCEPT !.requests[i].phase = "ended",
                                    !.controller = 0,
                                    !.state.isStreaming = FALSE,
                                    !.state.error = JStr(<<"H","T","T","P">>)]
  /\ ServerUnchanged

\* reader.read() of request i gives a chunk holding the lines of the next k
\* events, for any k the network delivers.
ReadChunk(i) ==
  /\ i \in DOMAIN client.requests
  /\ Quiet(i)
  /\ client.requests[i].phase = "reading"
  /\ client.requests[i].lines = <<>>
  /\ ~client.requests[i].waiting
  /\ ~client.requests[i].aborted
  /\ \E k \in 1..Len(client.requests[i].body) :
       client' = [client EXCEPT
                    !.requests[i].lines = SubSeq(client.requests[i].body, 1, k),
                    !.requests[i].body = SubSeq(@, k + 1, Len(@))]
  /\ ServerUnchanged

\* reader.read() of request i gives done: the loop ends and the finally
\* block sets abortControllerRef.current to null.
ReadDone(i) ==
  /\ i \in DOMAIN client.requests
  /\ Quiet(i)
  /\ client.requests[i].phase = "reading"
  /\ client.requests[i].lines = <<>>
  /\ ~client.requests[i].waiting
  /\ ~client.requests[i].aborted
  /\ client.requests[i].body = <<>>
  /\ client' = [client EXCEPT !.requests[i].phase = "ended", !.controller = 0]
  /\ ServerUnchanged

\* client c after the next line of the chunk of request i went through
\* handleStreamingEvent and the effect ran.
Handled(c, i, s2) ==
  [c EXCEPT !.state = s2, !.requests[i].lines = Tail(@), !.requests[i].applied = @ + 1,
            !.requests[i].waiting = Head(c.requests[i].lines).type \in TimedEvents,
            !.saved = AutoSave(@, c.state, s2)]

\* The delay after the last line of a chunk is over and request i calls
\* reader.read().
CallRead(i) ==
  /\ i \in DOMAIN client.requests
  /\ Quiet(i)
  /\ client.requests[i].phase = "reading"
  /\ client.requests[i].lines = <<>>
  /\ client.requests[i].waiting
  /\ ~client.requests[i].aborted
  /\ client' = [client EXCEPT !.requests[i].waiting = FALSE]
  /\ ServerUnchanged

\* One iteration of  for (const line of lines)  in request i, up to the await
\* of its delay if it has one: the loop does not look at the abort signal.
HandleEvent(i) ==
  /\ i \in DOMAIN client.requests
  /\ Quiet(i)
  /\ client.requests[i].phase = "reading"
  /\ client.requests[i].lines # <<>>
  /\ client' = Handled(client, i, ApplyEvent(client.state, Head(client.requests[i].lines)))
  /\ ServerUnchanged

\* Request q waits in  await fetch  or in  await reader.read() .
Parked(q) ==
  q.phase = "fetch" \/ (q.phase = "reading" /\ q.lines = <<>> /\ ~q.waiting)

\* The requests of c after abort() of the stored controller, if any: a
\* request that waits in fetch or in reader.read() is rejected with an
\* AbortError at once, and its catch and finally blocks run before the
\* browser handles another event; a request inside its  for (const line of
\* lines)  loop goes on.
AbortStored(c) ==
  IF c.controller = 0 THEN c.requests
  ELSE [c.requests EXCEPT
          ![c.controller].aborted = TRUE,
          ![c.controller].phase = IF Parked(c.requests[c.controller]) THEN "ended" ELSE @]

\* abortStreaming, behind the Cancel button that is shown while isStreaming.
AbortStreaming ==
  /\ pc = "idle"
  /\ client.state.isStreaming
  /\ Quiet(0)
  /\ client' = [client EXCEPT
                  !.requests = AbortStored(client),
                  !.controller = 0,
                  !.state.isStreaming = FALSE,
                  !.state.error = JStr(<<"a","b","o","r","t","e","d">>)]
  /\ ServerUnchanged

\* Request i, aborted inside its line loop, calls reader.read() again: it
\* rejects with an AbortError, the catch returns without a state change and
\* the finally block sets abortControllerRef.current to null.
AbortError(i) ==
  /\ i \in DOMAIN client.requests
  /\ Quiet(i)
  /\ client.requests[i].aborted
  /\ client.requests[i].phase = "reading"
  /\ client.requests[i].lines = <<>>
  /\ client' = [client EXCEPT !.requests[i].phase = "ended", !.controller = 0]
  /\ ServerUnchanged

NextClient ==
  \/ StartRequest(JStr(<<"a">>))
  \/ AbortStreaming
  \/ \E i \in 1..MaxSessions, r \in ClientResponses : FetchResolves(i, r)
  \/ \E i \in 1..MaxSessions : ReadChunk(i)
  \/ \E i \in 1..MaxSessions : ReadDone(i)
  \/ \E i \in 1..MaxSessions : CallRead(i)
  \/ \E i \in 1..MaxSessions : HandleEvent(i)
  \/ \E i \in 1..MaxSessions : AbortError(i)

SpecClient == InitClient /\ [][NextClient]_vars


(***************************************************************************)
(* Properties                                                              *)
(***************************************************************************)
\* The running streaming request was answered with an event stream.
Streamed == pc = "done" /\ req.streaming /\ response.statusCode = 200

IsPolicyChar(e) == e.type = "policy_char"

IsExplanationChar(e) == e.type = "explanation_char"

IsCharEvent(e) == IsPolicyChar(e) \/ IsExplanationChar(e)

RECURSIVE ConcatChars(_)
\* The char fields of the events, concatenated as a client appends them.
ConcatChars(events) ==
  IF events = <<>> THEN <<>>
  ELSE IF Len(events) = 1
       THEN (IF IsString(events[1].char) THEN events[1].char.s ELSE <<"?">>)
  ELSE ConcatChars(SubSeq(events, 1, Len(events) \div 2))
       \o ConcatChars(SubSeq(events, Len(events) \div 2 + 1, Len(events)))

\* The response holds a policy_char or explanation_char event.
HasCharEvents == \E i \in 1..Len(response.events) : IsCharEvent(response.events[i])

\* C1: a streaming request that completes successfully, delivering (in its
\* complete event) a policy of length n and an explanation of length m, is
\* answered with exactly n + m + 2 events: start, then policy_char with
\* indices 0..n-1 in order, then explanation_char with indices 0..m-1 in
\* order, then complete.
C1_StreamOrder ==
  Streamed =>
    LET ev == response.events
        n == JsLength(ev[Len(ev)].data.policy)
        m == JsLength(ev[Len(ev)].data.explanation)
    IN /\ Len(ev) = n + m + 2
       /\ ev[1].type = "start"
       /\ \A i \in 1..n : IsPolicyChar(ev[1 + i]) /\ ev[1 + i].index = i - 1
       /\ \A j \in 1..m : IsExplanationChar(ev[1 + n + j]) /\ ev[1 + n + j].index = j - 1
       /\ ev[n + m + 2].type = "complete"

\* A stream of the spec's example: policy "ab", explanation "c", 5 events.
C1_Witness ==
  /\ Streamed
  /\ result.policy = JStr(<<"a", "b">>)
  /\ result.explanation = JStr(<<"c">>)
  /\ Len(response.events) = 5

\* C2: the char fields of the policy_char events, concatenated in emitted
\* order, are the policy of the record the normalizer returned, and those
\* of the explanation_char events are its explanation.
C2_StreamCompleteness ==
  Streamed =>
    /\ IsString(result.policy)
    /\ ConcatChars(SelectSeq(response.events, IsPolicyChar)) = result.policy.s
    /\ IsString(result.explanation)
    /\ ConcatChars(SelectSeq(response.events, IsExplanationChar)) = result.explanation.s

\* C3: a request whose completion or normalization failed is answered
\* without any policy_char or explanation_char event, and a response that
\* holds such events belongs to a request whose completion and
\* normalization succeeded.
C3_NoCharsOnFailure ==
  /\ failure # "" => ~HasCharEvents
  /\ HasCharEvents => failure = "" /\ result # NoRecord /\ ~result.threw

\* A streaming request whose completion call or normalization failed.
C3_Witness ==
  /\ pc = "done"
  /\ req.streaming
  /\ failure \in FailureKinds \cup {"TypeError"}
  /\ Len(calls) = 1

\* C4: a streaming request whose completion call fails is answered with
\* exactly one event, of type error, carrying the failure message.
C4_SingleErrorEvent ==
  (pc = "done" /\ req.streaming /\ failure \in FailureKinds) =>
    /\ Len(response.events) = 1
    /\ response.events[1].type = "error"
    /\ response.events[1].data = failure

\* C5: a completion call that fails with a rate-limit error is answered with
\* status 429, every other completion failure with a 5xx status.
C5_RateLimitStatus ==
  (pc = "done" /\ failure \in FailureKinds) =>
    IF failure = "RateLimited" THEN response.statusCode = 429
    ELSE response.statusCode \in 500..599

\* C6: for every raw completion text the normalizer returns a record with
\* policy, explanation and test_inputs, and does not throw.
C6_NormalizerTotal ==
  pc = "done" =>
    /\ failure = ""
    /\ ~result.threw
    /\ result.policy.t # "undefined"
    /\ result.explanation.t # "undefined"
    /\ result.test_inputs.t # "undefined"

\* The answer was the JSON of an object cut one character short, which is
\* no JSON: the text fallback returned it as the policy.
C6_Witness ==
  /\ pc = "done"
  /\ failure = ""
  /\ IsString(result.policy)
  /\ StartsWith(result.policy.s, <<"{", QT>> \o Str_policy)
  /\ result.test_inputs = JArr(<<>>)

\* C7: the policy field of the record the normalizer returns is a string.
C7_PolicyIsString ==
  (pc = "done" /\ failure = "") => IsString(result.policy)

\* C8: the policy string of the record the normalizer returns holds neither
\* a backslash followed by n nor a backslash followed by a quote.
C8_NoEscapes ==
  (pc = "done" /\ failure = "" /\ IsString(result.policy)) =>
    /\ ~Includes(result.policy.s, <<BS, "n">>)
    /\ ~Includes(result.policy.s, <<BS, QT>>)

\* The keys of an object.
Keys(v) == {v.members[i].k : i \in 1..Len(v.members)}

\* An entry of the shape {description, input, expected}.
ShapedEntry(e) ==
  e.t = "object" /\ Keys(e) = {Str_description, Str_input, Str_expected}

\* C9: every entry of test_inputs in the record the normalizer returns has
\* the shape {description, input, expected}; a bare entry is wrapped with
\* the description "Test case" and expected true.
C9_TestInputShape ==
  (pc = "done" /\ failure = "" /\ result.test_inputs.t = "array") =>
    \A i \in 1..Len(result.test_inputs.items) :
      ShapedEntry(result.test_inputs.items[i])

\* The instructions are a string that is empty or only white space.
BlankInstructions == IsString(req.instructions) /\ Trim(req.instructions.s) = <<>>

\* C10: a request whose instructions are empty or only white space is
\* answered with the invalid-input error, and neither a prompt is built nor
\* a completion call made for it.
C10_BlankRejected ==
  BlankInstructions =>
    /\ prompts = <<>>
    /\ calls = <<>>
    /\ pc = "done" => response.statusCode = 400 /\ response.error.code = "INVALID_INPUT"

\* The body of the running request was parsed and destructured (the catch of
\* a body that is no JSON object leaves no context).
BodyRead == pc # "idle" /\ req.context # JUndef

\* The field the route requires is missing or not a string: instructions on
\* generate, instructions or existing_policy on refine, policy on validate
\* and explain.
RequiredFieldBad ==
  CASE req.route = GENERATE -> ~IsString(req.instructions)
    [] req.route = REFINE -> ~IsString(req.instructions) \/ ~IsString(req.existing_policy)
    [] req.route \in {VALIDATE, EXPLAIN} -> ~IsString(req.policy)
    [] OTHER -> FALSE

\* C11: on every POST endpoint a request whose required field is missing or
\* not a string is answered with a 4xx status and a machine-readable code,
\* and the agent core never runs for it: no prompt is built and no
\* completion call is made.
C11_RequiredFieldChecked ==
  (BodyRead /\ RequiredFieldBad) =>
    /\ prompts = <<>>
    /\ calls = <<>>
    /\ pc = "done"
    /\ response.statusCode \in 400..499
    /\ response.error.code # ""

\* The running request passed the handler's field checks.
Accepted == BodyRead /\ InvalidInput(req) = ""

UnknownOperationBuilt ==
  prompts # <<>> /\ prompts[Len(prompts)].operation \notin OperationPrompts

\* C13 as stated: building the prompt of an operation outside the four
\* fails with UnsupportedOperation.
C13_UnknownOperationFails ==
  UnknownOperationBuilt =>
    \/ failure = "UnsupportedOperation"
    \/ prompts[Len(prompts)].system.section = "UnsupportedOperation"

\* C13: building a system prompt never fails; for the operations
\* generation, refinement, validation and explanation it is the base prompt
\* with that operation's section, for a name Object.prototype defines the
\* base prompt with the text of the inherited member, and for every other
\* name the base prompt alone.
C13_UnknownOperationBasePrompt ==
  /\ failure = ""
  /\ \A i \in 1..Len(prompts) :
       /\ prompts[i].system.base = "expert OPA Rego policy generator"
       /\ prompts[i].system.section =
            (IF prompts[i].operation \in OperationPrompts THEN prompts[i].operation
             ELSE IF prompts[i].operation \in ObjectPrototypeKeys THEN "prototype"
             ELSE "")

\* A prompt was built for the unknown operation "delete" after one for a
\* known operation.
C13_Witness ==
  /\ Len(prompts) = 2
  /\ prompts[1].operation = "generation"
  /\ prompts[2].operation = "delete"
  /\ prompts[2].system.section = ""

\* The response the handler gives for request r and the normalizer's record
\* res.
AnswerOf(r, res) ==
  IF res.threw THEN FailureResponse(r, "TypeError") ELSE SuccessResponse(r, res)

\* The response the handler gives for request r when the provider answered
\* content, computed from r and content alone.
AnswerFor(r, content) ==
  IF r.route \in PolicyRoutes
  THEN AnswerOf(r, parseGenerationResponse(content))
  ELSE (IF r.route = EXPLAIN /\ ~IsString(r.policy)
        THEN HandlerCatch(r.route, "TypeError")
        ELSE JsonResponse(Record(JUndef, content, JUndef)))

\* The request ended with the response that its body and the provider's
\* behaviour (an answer, or a failure of some kind) determine.
OutcomeFromBodyAndProvider ==
  /\ calls = <<PromptsFor(req)>>
  /\ response = IF failure \in FailureKinds THEN FailureResponse(req, failure)
                ELSE AnswerFor(req, raw)

C15_NoEventAfterAbort ==
  [][\A i \in DOMAIN client.requests :
       (client.requests[i].aborted /\ client'.requests[i].aborted) =>
         /\ client'.requests[i].applied = client.requests[i].applied
         /\ (client'.requests[i].lines # client.requests[i].lines) =>
              client'.saved = client.saved]_vars

\* C16: a request the client aborted ends in an outcome that is no error:
\* the error state is not set.
C16_AbortNotError ==
  (client.requests # <<>> /\ client.requests[Len(client.requests)].aborted) =>
    client.state.error = JNull

\* An upper bound on the provider call, below the horizon of the model.
UpperBound == MaxWait - 1

\* C17: a request never waits for the provider beyond the upper bound: by
\* then the call was classified as a Timeout and the request has ended with
\* an error.
C17_BoundedWait ==
  /\ (pc = "awaitOpenAI") => waited <= UpperBound
  /\ (pc = "done" /\ waited >= UpperBound) => failure = "Timeout"

\* The substrings of text that are a JSON object, as <<first, last>>.
ObjectsIn(text) ==
  {span \in {i \in 1..Len(text) : text[i] = "{"} \X {j \in 1..Len(text) : text[j] = "}"} :
     span[1] < span[2] /\ JsonParseText(SubSeq(text, span[1], span[2])).ok}

\* The whole text is one JSON object.
WholeIsObject(text) == JsonParseText(text).ok /\ JsonParseText(text).v.t = "object"

\* C18: the normalizer takes the whole text as one JSON object when it is
\* one; otherwise the record comes from a JSON object found inside the
\* text when there is one; and the text heuristics alone produce the record
\* exactly when no JSON object can be recovered from the text.
C18_StrategyOrder ==
  (pc = "done" /\ failure = "" /\ IsString(raw)) =>
    /\ WholeIsObject(raw.s) => result = DirectRecord(JsonParseText(raw.s).v, raw)
    /\ (~WholeIsObject(raw.s) /\ ObjectsIn(raw.s) # {}) =>
         \E span \in ObjectsIn(raw.s) :
           result = ExtractedRecord(JsonParseText(SubSeq(raw.s, span[1], span[2])).v, raw.s)
    /\ ObjectsIn(raw.s) = {} => result = TextRecord(raw.s)

\* The policy field of the answer object obj is a string that starts with
\* "{" and parses as JSON.
HasNestedPolicy(obj) ==
  /\ IsString(GetProp(obj, Str_policy).v)
  /\ StartsWith(GetProp(obj, Str_policy).v.s, <<"{">>)
  /\ JsonParseText(GetProp(obj, Str_policy).v.s).ok

\* The record's policy and test_inputs are those of the object inner nested
\* in the policy field of obj, where inner has them.
UnwrappedFrom(obj, inner) ==
  /\ result.policy = Or(GetProp(inner, Str_policy).v, GetProp(obj, Str_policy).v)
  /\ result.test_inputs = Or(GetProp(inner, Str_test_inputs).v,
                             Or(GetProp(obj, Str_test_inputs).v, JArr(<<>>)))

\* C19: when the policy field of the parsed answer is a string that starts
\* with "{" and parses as JSON, the record's policy and test_inputs are the
\* inner object's.
C19_NestedUnwrapped ==
  (pc = "done" /\ failure = "" /\ IsString(raw) /\ WholeIsObject(raw.s)
   /\ HasNestedPolicy(JsonParseText(raw.s).v)) =>
    UnwrappedFrom(JsonParseText(raw.s).v,
                  JsonParseText(GetProp(JsonParseText(raw.s).v, Str_policy).v.s).v)

\* What each escaped character of a policy stands for.
PolicyEscapes == ("n" :> <<NL>>) @@ (QT :> <<QT>>) @@ ("t" :> <<SP, SP, SP, SP>>)

\* What the normalizer puts for each escaped character of an explanation:
\* a blank for the line feed, and nothing for the tab, which is left as it is.
ExplanationEscapes == ("n" :> <<SP>>) @@ (QT :> <<QT>>)

RECURSIVE Unescaped(_, _)
\* s read from left to right, with every backslash that is followed by a
\* character of escapes replaced, together with that character, by what the
\* character stands for.
Unescaped(s, escapes) ==
  IF s = <<>> THEN <<>>
  ELSE IF Len(s) >= 2 /\ s[1] = BS /\ s[2] \in DOMAIN escapes
       THEN escapes[s[2]] \o Unescaped(SubSeq(s, 3, Len(s)), escapes)
  ELSE IF s[1] = BS THEN <<BS>> \o Unescaped(Tail(s), escapes)
  ELSE Before(s, 1 + RunNotIn(s, 1, {BS}))
       \o Unescaped(From(s, 1 + RunNotIn(s, 1, {BS})), escapes)

\* The JSON value the record's fields are read from: the whole text parsed,
\* or else the span from the first "{" to the last "}" parsed; undefined
\* when neither parses.
SourceObject(text) ==
  IF JsonParseText(text).ok /\ GetProp(JsonParseText(text).v, Str_policy).ok
  THEN JsonParseText(text).v
  ELSE IF JsonMatch(text).found /\ JsonParseText(JsonMatch(text).group).ok
       THEN JsonParseText(JsonMatch(text).group).v
       ELSE JUndef

\* field of the record is the non-empty string v with escapes applied.
UnescapedField(field, v, escapes) ==
  (IsString(v) /\ v.s # <<>>) => field = JStr(Unescaped(v.s, escapes))

\* The record's policy and explanation are those of obj, the policy
\* un-escaped by policyEscapes and the explanation by explanationEscapes.
UnescapedFrom(obj, policyEscapes, explanationEscapes) ==
  /\ UnescapedField(result.policy, GetProp(obj, Str_policy).v, policyEscapes)
  /\ UnescapedField(result.explanation, GetProp(obj, Str_explanation).v, explanationEscapes)

ByTextHeuristics(text) == SourceObject(text) = JUndef

\* The policy the normalizer settles on for text before any un-escaping:
\* the policy field of the JSON answer when it is truthy, and otherwise
\* what the strategy falls back to.
SettledPolicy(text) ==
  IF ByTextHeuristics(text) THEN JStr(extractPolicyFromText(text))
  ELSE IF Truthy(GetProp(SourceObject(text), Str_policy).v)
       THEN GetProp(SourceObject(text), Str_policy).v
  ELSE IF JsonParseText(text).ok THEN JStr(<<>>)
  ELSE JStr(extractPolicyFromText(text))

\* Likewise the explanation.
SettledExplanation(text) ==
  IF ByTextHeuristics(text) THEN JStr(extractExplanationFromText(text))
  ELSE IF Truthy(GetProp(SourceObject(text), Str_explanation).v)
       THEN GetProp(SourceObject(text), Str_explanation).v
  ELSE JStr(extractExplanationFromText(text))

\* C21: on every path (direct parse, JSON substring, text heuristics) the
\* policy and the explanation of the returned record are the settled
\* strings with the un-escape pass applied.
C21_UnescapedOnEveryPath ==
  (pc = "done" /\ failure = "" /\ IsString(raw)) =>
    /\ result.policy = CleanPolicy(SettledPolicy(raw.s))
    /\ result.explanation = CleanExplanation(SettledExplanation(raw.s))

\* The policy of the record holds no backslash-n and no backslash-quote.
NoNewlineOrQuoteEscape(policy) ==
  /\ IsString(policy)
  /\ ~Includes(policy.s, <<BS, "n">>)
  /\ ~Includes(policy.s, <<BS, QT>>)

\* C22: when the policy of the returned record holds neither backslash-n
\* nor backslash-quote, the un-escape pass applied once more (the chain of
\* the normalizer, or ensureCleanContent) gives the same policy.
C22_UnescapeIdempotent ==
  (pc = "done" /\ failure = "" /\ NoNewlineOrQuoteEscape(result.policy)) =>
    /\ CleanPolicy(result.policy) = result.policy
    /\ ensureCleanContent(result.policy) = result.policy

(***************************************************************************)
(* The JSON substring of the second parse attempt                          *)
(***************************************************************************)
\* Positions p..j of text hold as many "{" as "}".
BracesBalanced(text, p, j) ==
  Cardinality({k \in p..j : text[k] = "{"}) = Cardinality({k \in p..j : text[k] = "}"})

\* The block from position open, a "{", to the "}" that matches it.
BalancedFrom(text, open) ==
  IF \E j \in open..Len(text) : BracesBalanced(text, open, j)
  THEN Found(SubSeq(text, open,
                    MinOf({j \in open..Len(text) : BracesBalanced(text, open, j)})))
  ELSE NoMatch

\* The first balanced {...} block of text.
FirstBalancedBlock(text) ==
  IF Includes(text, <<"{">>) THEN BalancedFrom(text, IndexFrom(text, <<"{">>, 1))
  ELSE NoMatch

\* The try block of the normalizer failed on text.
DirectParseFails(text) ==
  ~(JsonParseText(text).ok /\ GetProp(JsonParseText(text).v, Str_policy).ok)

\* C23: when the direct parse fails, the substring of the second parse
\* attempt is the first balanced {...} block of the raw text, and when
\* that block parses the record is read from it.
C23_FirstBalancedBlock ==
  (pc = "done" /\ failure = "" /\ IsString(raw) /\ DirectParseFails(raw.s)) =>
    /\ JsonMatch(raw.s) = FirstBalancedBlock(raw.s)
    /\ (FirstBalancedBlock(raw.s).found
        /\ JsonParseText(FirstBalancedBlock(raw.s).group).ok) =>
         result = ExtractedRecord(JsonParseText(FirstBalancedBlock(raw.s).group).v, raw.s)

(***************************************************************************)
(* The text heuristics (extractPolicyFromText, extractExplanationFromText, *)
(* extractTestInputsFromText)                                              *)
(***************************************************************************)
\* The length of the language tag at position p, just after an opening
\* fence: the characters up to the end of the line, when nothing but the
\* tag stands on that line.
TagLen(text, p) ==
  IF /\ p + RunNotIn(text, p, SpaceChars \cup {BT}) <= Len(text)
     /\ text[p + RunNotIn(text, p, SpaceChars \cup {BT})] = NL
  THEN RunNotIn(text, p, SpaceChars \cup {BT})
  ELSE 0

\* The contents of the block opened by the fence at open and closed by the
\* fence at close, the language tag left out.
FencedBetween(text, open, close) ==
  IF open = 0 \/ close = 0 THEN NoMatch
  ELSE Found(SubSeq(text, open + 3 + TagLen(text, open + 3), close - 1))

\* The first fenced code block of text.
FencedBlock(text) ==
  FencedBetween(text, IndexFrom(text, Fence, 1),
                IF IndexFrom(text, Fence, 1) = 0 THEN 0
                ELSE IndexFrom(text, Fence, IndexFrom(text, Fence, 1) + 3))

\* The policy the heuristics are said to take out of text.
HeuristicPolicy(text) ==
  IF FencedBlock(text).found THEN FencedBlock(text).group
  ELSE IF Includes(text, Str_package) THEN From(text, IndexFrom(text, Str_package, 1))
  ELSE text

\* C24: when the record is produced by the text heuristics, its policy is
\* the contents of the first fenced code block without the language tag
\* when there is a block, otherwise the text from the first "package" to
\* the end, otherwise the whole text; surrounding white space is not
\* counted.
C24_HeuristicPolicy ==
  (pc = "done" /\ failure = "" /\ IsString(raw) /\ ByTextHeuristics(raw.s)) =>
    result.policy = JStr(Trim(HeuristicPolicy(raw.s)))

\* The sentences of text that name policy, allow or rule, trimmed.
KeywordSentences(text) ==
  {Trim(SplitSentences(text, <<>>)[i]) :
     i \in {k \in 1..Len(SplitSentences(text, <<>>)) :
              TellingSentence(ToLowerCase(SplitSentences(text, <<>>)[k]))}}

\* v is what a test_inputs array fragment of text parses to.
FromTestInputsFragment(text, v) ==
  \E q \in 1..Len(text) : \E c \in 1..Len(text) :
    /\ MatchAt(text, TestInputsLead, q)
    /\ q + Len(TestInputsLead) <= c
    /\ JsonParseText(SubSeq(text, q + Len(TestInputsLead), c)).ok
    /\ JsonParseText(SubSeq(text, q + Len(TestInputsLead), c)).v = v
    /\ v.t = "array"

\* C25: when the record is produced by the text heuristics, its explanation
\* is a sentence of the text that names policy, allow or rule, and the
\* static success message when no sentence does; its test_inputs is the
\* empty array unless it is what a test_inputs array fragment parses to.
C25_HeuristicExplanation ==
  (pc = "done" /\ failure = "" /\ IsString(raw) /\ ByTextHeuristics(raw.s)) =>
    /\ IF KeywordSentences(raw.s) # {}
       THEN IsString(result.explanation) /\ result.explanation.s \in KeywordSentences(raw.s)
       ELSE result.explanation = JStr(Str_Policy_generated_successfully)
    /\ \/ result.test_inputs = JArr(<<>>)
       \/ FromTestInputsFragment(raw.s, result.test_inputs)

(***************************************************************************)
(* analyzeRequestType (src/unnamed/part_006, and the copy in part_005): a  *)
(* pure function of the instructions and the context, applied to drawn     *)
(* inputs.                                                                 *)
(***************************************************************************)
Str_refine == <<"r","e","f","i","n","e">>
Str_modify == <<"m","o","d","i","f","y">>
Str_update == <<"u","p","d","a","t","e">>
Str_improve == <<"i","m","p","r","o","v","e">>
Str_validate == <<"v","a","l","i","d","a","t","e">>
Str_check == <<"c","h","e","c","k">>
Str_lint == <<"l","i","n","t">>
Str_verify == <<"v","e","r","i","f","y">>
Str_explain == <<"e","x","p","l","a","i","n">>
Str_describe == <<"d","e","s","c","r","i","b","e">>
Str_what_does == <<"w","h","a","t",SP,"d","o","e","s">>
Str_how_does == <<"h","o","w",SP,"d","o","e","s">>
Str_deploy == <<"d","e","p","l","o","y">>
Str_integrate == <<"i","n","t","e","g","r","a","t","e">>
Str_setup == <<"s","e","t","u","p">>
Str_configure == <<"c","o","n","f","i","g","u","r","e">>

\* lowerInstructions.includes(w) for some w of words.
IncludesAny(lower, words) == \E w \in words : Includes(lower, w)

\* The chain of ifs on the lowercased instructions; existing is
\* context.existing_policy.
RequestTypeOf(lower, existing) ==
  IF /\ Truthy(existing)
     /\ IncludesAny(lower, {Str_refine, Str_modify, Str_update, Str_improve})
  THEN "refine"
  ELSE IF IncludesAny(lower, {Str_validate, Str_check, Str_lint, Str_verify})
  THEN "validate"
  ELSE IF IncludesAny(lower, {Str_explain, Str_describe, Str_what_does, Str_how_does})
  THEN "explain"
  ELSE IF IncludesAny(lower, {Str_deploy, Str_integrate, Str_setup, Str_configure})
  THEN "deploy"
  ELSE "generate"

\* A chain that has no validate rule.
analyzeRequestType_NoValidate(instructions, context) ==
  IF RequestTypeOf(ToLowerCase(instructions), context.existing_policy) = "validate"
  THEN "generate"
  ELSE RequestTypeOf(ToLowerCase(instructions), context.existing_policy)

analyzeRequestType(instructions, context) ==
  RequestTypeOf(ToLowerCase(instructions), context.existing_policy)

\* Calls of analyzeRequestType in the model.
MaxAnalyzed == 2

\* The words the chain looks for.
Keywords ==
  {Str_refine, Str_modify, Str_update, Str_improve, Str_validate, Str_check, Str_lint,
   Str_verify, Str_explain, Str_describe, Str_what_does, Str_how_does, Str_deploy,
   Str_integrate, Str_setup, Str_configure}

\* A word of a rule with a word of the next rule.
WordPairs ==
  {<<Str_refine, Str_verify>>, <<Str_verify, Str_explain>>, <<Str_explain, Str_setup>>}

\* Instructions: each word alone, words of two rules together (in both
\* orders), a word in capitals, a word inside a longer word, and
\* instructions with none of the words.
InstructionTexts ==
  Keywords
  \cup {p[1] \o <<SP>> \o p[2] : p \in WordPairs}
  \cup {p[2] \o <<SP>> \o p[1] : p \in WordPairs}
  \cup {<<"R","E","F","I","N","E">>, <<"C","h","e","c","k","s">>,
        <<"w","r","i","t","e">>, <<>>}

\* context: existing_policy absent, empty, or a policy text.
AnalyzeContexts ==
  {[existing_policy |-> v] : v \in {JUndef, JStr(<<>>), JStr(Str_package \o <<SP, "a">>)}}

InitAnalyze ==
  /\ pc = "analyze"
  /\ req = NoRequest
  /\ agent = NewAgent
  /\ prompts = <<>>
  /\ calls = <<>>
  /\ failure = ""
  /\ result = NoRecord
  /\ response = NoResponse
  /\ served = 0
  /\ secret = "unknown"
  /\ raw = JUndef
  /\ client = NoClient
  /\ waited = 0
  /\ analyzed = <<>>
  /\ invocations = <<>>
  /\ interactions = <<>>
  /\ stream = NoStream

\* processRequest reads the request type of its instructions and context.
AnalyzeRequest(instructions, context) ==
  /\ pc = "analyze"
  /\ Len(analyzed) < MaxAnalyzed
  /\ analyzed' = Append(analyzed,
                        [instructions |-> instructions, context |-> context,
                         requestType |-> analyzeRequestType(instructions, context)])
  /\ UNCHANGED <<pc, req, agent, prompts, calls, failure, result, response, served, secret,
                 raw, client, waited, invocations, interactions, stream>>

NextAnalyze ==
  \E instructions \in InstructionTexts : \E context \in AnalyzeContexts :
    AnalyzeRequest(instructions, context)

SpecAnalyze == InitAnalyze /\ [][NextAnalyze]_vars

\* The request type the rules give, read in order: refine needs one of its
\* words and an existing policy; explainWords and deployWords are the words
\* of the explain rule and of the deploy rule.
RuleType(lower, hasExisting, explainWords, deployWords) ==
  CASE hasExisting /\ (\E w \in {Str_refine, Str_modify, Str_update, Str_improve} :
                         Includes(lower, w)) -> "refine"
    [] OTHER ->
       CASE (\E w \in {Str_validate, Str_check, Str_lint, Str_verify} : Includes(lower, w))
              -> "validate"
         [] OTHER ->
            CASE (\E w \in explainWords : Includes(lower, w)) -> "explain"
              [] OTHER ->
                 CASE (\E w \in deployWords : Includes(lower, w)) -> "deploy"
                   [] OTHER -> "generate"

\* Every request type read so far is the one the rules give.
AnalyzedByRules(explainWords, deployWords) ==
  \A i \in 1..Len(analyzed) :
    analyzed[i].requestType =
      RuleType(ToLowerCase(analyzed[i].instructions),
               IsString(analyzed[i].context.existing_policy)
                 /\ analyzed[i].context.existing_policy.s # <<>>,
               explainWords, deployWords)

\* C26 as stated: explain for "explain" or "describe", deploy for "deploy",
\* "integrate" or "setup", and generate for everything else.
C26_ClassifyAsStated ==
  AnalyzedByRules({Str_explain, Str_describe}, {Str_deploy, Str_integrate, Str_setup})

\* C26: the request type is refine when the lowercased instructions hold
\* refine, modify, update or improve and an existing policy is present;
\* otherwise validate for validate, check, lint or verify; otherwise explain
\* for explain, describe, "what does" or "how does"; otherwise deploy for
\* deploy, integrate, setup or configure; otherwise generate.
C26_Classify ==
  AnalyzedByRules({Str_explain, Str_describe, Str_what_does, Str_how_does},
                  {Str_deploy, Str_integrate, Str_setup, Str_configure})

\* Instructions with a refine word and a validate word were read twice:
\* with an existing policy they are a refine request, without one a
\* validate request.
C26_Witness ==
  /\ Len(analyzed) = 2
  /\ analyzed[1].instructions = Str_refine \o <<SP>> \o Str_verify
  /\ analyzed[2].instructions = Str_verify \o <<SP>> \o Str_refine
  /\ Truthy(analyzed[1].context.existing_policy)
  /\ ~Truthy(analyzed[2].context.existing_policy)
  /\ analyzed[1].requestType = "refine"
  /\ analyzed[2].requestType = "validate"

(***************************************************************************)
(* getAgent called by handlers that run side by side in one process        *)
(* (index.js 48-68).  A step runs from one await to the next: JavaScript   *)
(* runs the code between two awaits without interruption, and an await of  *)
(* a promise that is already settled resumes before any network reply or   *)
(* new event is handled.                                                   *)
(***************************************************************************)
\* Handlers in the model.
MaxInvocations == 3

Idle == [pc |-> "idle", initialized |-> FALSE, openai |-> FALSE, error |-> ""]

InitAgent ==
  /\ pc = "concurrent"
  /\ req = NoRequest
  /\ agent = NewAgent
  /\ prompts = <<>>
  /\ calls = <<>>
  /\ failure = ""
  /\ result = NoRecord
  /\ response = NoResponse
  /\ served = 0
  /\ secret = "unknown"
  /\ raw = JUndef
  /\ client = NoClient
  /\ waited = 0
  /\ analyzed = <<>>
  /\ invocations = [i \in 1..MaxInvocations |-> Idle]
  /\ interactions = <<>>
  /\ stream = NoStream

\* The handler has the agent a and calls a method of it: callOpenAI throws
\* when this.openai is not set, and otherwise the provider is called.
UsingAgent(a) ==
  [pc |-> IF a.openai THEN "awaitOpenAI" ELSE "done",
   initialized |-> a.initialized,
   openai |-> a.openai,
   error |-> IF a.openai THEN "" ELSE "OpenAI client not initialized"]

\* await getAgent() in handler i.  When globalAgent is null the agent is
\* constructed and the key is awaited; otherwise globalAgent is returned as
\* it is and the handler goes on with it.
CallGetAgent(i) ==
  /\ pc = "concurrent"
  /\ invocations[i].pc = "idle"
  /\ IF agent.created
     THEN /\ invocations' = [invocations EXCEPT ![i] = UsingAgent(agent)]
          /\ UNCHANGED agent
     ELSE /\ agent' = [agent EXCEPT !.created = TRUE]
          /\ invocations' = [invocations EXCEPT ![i].pc = "awaitKey"]
  /\ UNCHANGED <<pc, req, prompts, calls, failure, result, response, served, secret, raw,
                 client, waited, analyzed, interactions, stream>>

\* The key store answers handler i (keyOk) or fails: the key is put in the
\* environment or the error is logged, and initialize() runs up to its
\* return: the client is made when the key is there, initialized is set.
KeyArrives(i, keyOk) ==
  /\ pc = "concurrent"
  /\ invocations[i].pc = "awaitKey"
  /\ agent' = [agent EXCEPT !.initialized = TRUE, !.openai = keyOk]
  /\ secret' = IF keyOk THEN "ok" ELSE "down"
  /\ invocations' = [invocations EXCEPT ![i].pc = "awaitInit"]
  /\ UNCHANGED <<pc, req, prompts, calls, failure, result, response, served, raw, client,
                 waited, analyzed, interactions, stream>>

\* await globalAgent.initialize() resumes in handler i: getAgent returns
\* the agent and the handler goes on with it.
InitializeReturns(i) ==
  /\ pc = "concurrent"
  /\ invocations[i].pc = "awaitInit"
  /\ invocations' = [invocations EXCEPT ![i] = UsingAgent(agent)]
  /\ UNCHANGED <<pc, req, agent, prompts, calls, failure, result, response, served, secret,
                 raw, client, waited, analyzed, interactions, stream>>

\* The provider answers handler i, or the call fails.
CompletionReturns(i, ok) ==
  /\ pc = "concurrent"
  /\ invocations[i].pc = "awaitOpenAI"
  /\ invocations' = [invocations EXCEPT ![i].pc = "done",
                                        ![i].error = IF ok THEN "" ELSE "ProviderError"]
  /\ UNCHANGED <<pc, req, agent, prompts, calls, failure, result, response, served, secret,
                 raw, client, waited, analyzed, interactions, stream>>

NextAgent ==
  \E i \in 1..MaxInvocations :
    \/ CallGetAgent(i)
    \/ \E keyOk \in BOOLEAN : KeyArrives(i, keyOk)
    \/ InitializeReturns(i)
    \/ \E ok \in BOOLEAN : CompletionReturns(i, ok)

SpecAgent == InitAgent /\ [][NextAgent]_vars

\* C27: a handler that goes on with the agent getAgent handed it has an
\* agent whose initialize() has run.
C27_InitializedBeforeUse ==
  \A i \in DOMAIN invocations :
    invocations[i].pc \in {"awaitOpenAI", "done"} => invocations[i].initialized

(***************************************************************************)
(* generatePolicy and refinePolicy called one after another on the         *)
(* process-wide agent (agent-core-simple.js 470-519), often enough for     *)
(* conversationHistory to be cut.                                          *)
(***************************************************************************)
\* Calls made on the agent in the model.
MaxInteractions == 12

\* What the provider answers: an answer object, or no content (on which
\* parseGenerationResponse throws and the call fails).
HistoryContents == {JStr(Text_ab_c), JNull}

InitHistory ==
  /\ pc = "history"
  /\ req = NoRequest
  /\ agent = [NewAgent EXCEPT !.created = TRUE, !.initialized = TRUE, !.openai = TRUE]
  /\ prompts = <<>>
  /\ calls = <<>>
  /\ failure = ""
  /\ result = NoRecord
  /\ response = NoResponse
  /\ served = 0
  /\ secret = "ok"
  /\ raw = JUndef
  /\ client = NoClient
  /\ waited = 0
  /\ analyzed = <<>>
  /\ invocations = <<>>
  /\ interactions = <<>>
  /\ stream = NoStream

\* The method has the normalizer's record res, or the normalizer threw:
\* updateContext runs only in the first case, the catch block rethrows in
\* the second.
AfterParse(operation, instructions, res) ==
  /\ agent' = IF res.threw THEN agent
              ELSE updateContext(agent, operation, instructions, res)
  /\ result' = IF res.threw THEN result ELSE res
  /\ failure' = IF res.threw THEN "TypeError" ELSE ""
  /\ interactions' = Append(interactions,
                            [operation |-> operation, instructions |-> instructions,
                             returned |-> ~res.threw, result |-> res])

\* generatePolicy (operation "generation") or refinePolicy ("refinement")
\* with the next instructions, the provider answering content.
AgentCall(operation, content) ==
  /\ pc = "history"
  /\ Len(interactions) < MaxInteractions
  /\ raw' = content
  /\ AfterParse(operation, JStr(NatToStr(Len(interactions) + 1)),
                parseGenerationResponse(content))
  /\ UNCHANGED <<pc, req, prompts, calls, response, served, secret, client, waited,
                 analyzed, invocations, stream>>

\* The calls alternate between the two methods.
NextHistory ==
  \E content \in HistoryContents :
    AgentCall(IF Len(interactions) % 2 = 0 THEN "generation" ELSE "refinement", content)

SpecHistory == InitHistory /\ [][NextHistory]_vars

\* The calls that returned a record, in call order, as history entries.
SuccessfulInteractions ==
  [i \in 1..Len(SelectSeq(interactions, LAMBDA x : x.returned)) |->
     [operation |-> SelectSeq(interactions, LAMBDA x : x.returned)[i].operation,
      instructions |-> SelectSeq(interactions, LAMBDA x : x.returned)[i].instructions,
      result |-> SelectSeq(interactions, LAMBDA x : x.returned)[i].result]]

\* The last n entries of the sequence s (all of s when it has fewer).
LastOfSeq(s, n) == IF Len(s) <= n THEN s ELSE SubSeq(s, Len(s) - n + 1, Len(s))

\* C28: conversationHistory holds at most 10 entries, and they are the
\* most recent calls that returned a record, in call order; a call that
\* failed has no entry.
C28_HistoryBounded ==
  (pc = "history") =>
    /\ Len(agent.conversationHistory) <= 10
    /\ agent.conversationHistory = LastOfSeq(SuccessfulInteractions, 10)

\* Eleven calls returned a record and one failed in between: the history
\* holds ten entries, the oldest of them from the second successful call.
C28_Witness ==
  /\ pc = "history"
  /\ Len(SuccessfulInteractions) = 11
  /\ Len(interactions) = 12
  /\ ~interactions[5].returned
  /\ Len(agent.conversationHistory) = 10
  /\ agent.conversationHistory[1].instructions = JStr(<<"2">>)
  /\ agent.conversationHistory[10].instructions = JStr(<<"1", "2">>)

(***************************************************************************)
(* C29  The abort controller under overlapping requests                    *)
(***************************************************************************)
\* The most recently started call of handleStreamingRequest is in flight:
\* it has not reached its finally block and the user has not aborted it.
LatestInFlight ==
  /\ client.requests # <<>>
  /\ client.requests[Len(client.requests)].phase # "ended"
  /\ ~client.requests[Len(client.requests)].aborted

\* C29: while a streaming request is in flight, abortControllerRef holds the
\* controller of the most recently started request, so that abortStreaming
\* aborts that request; the cleanup of an earlier request never clears or
\* replaces the controller of a later one.
C29_ControllerOfLatest ==
  LatestInFlight => client.controller = Len(client.requests)

(***************************************************************************)
(* C30  The Server-Sent-Events body, cut into network chunks               *)
(*                                                                         *)
(* The handler serializes its events array into one body text; the         *)
(* browser's read loop gets the text in chunks of any length and puts the  *)
(* lines together again.  Texts are handled character by character here.   *)
(***************************************************************************)
MaxStreamPolicy == 1

Str_type == <<"t","y","p","e">>
Str_data == <<"d","a","t","a">>
Str_char == <<"c","h","a","r">>
Str_index == <<"i","n","d","e","x">>
Str_section == <<"s","e","c","t","i","o","n">>
Str_timestamp == <<"t","i","m","e","s","t","a","m","p">>
Str_start == <<"s","t","a","r","t">>
Str_complete == <<"c","o","m","p","l","e","t","e">>
Str_char_suffix == <<"_","c","h","a","r">>

\* What new Date().toISOString() gave when the start event was built.
Timestamp == JStr(<<"1","2",":","0","0","Z">>)

\* The members of an object literal whose value is not undefined:
\* JSON.stringify leaves the others out.
Defined(members) == SelectSeq(members, LAMBDA m : m.v # JUndef)

\* The data object of the complete event, { ...result, policy: cleanPolicy,
\* explanation: cleanExplanation }, with the fields a record has.
ResultObject(r) ==
  JObj(Defined(<<Member(Str_policy, r.policy), Member(Str_explanation, r.explanation),
                 Member(Str_test_inputs, r.test_inputs)>>))

\* The object literal pushed on the events array for event e.
EventObject(e) ==
  CASE e.type = "start" ->
         JObj(<<Member(Str_type, JStr(Str_start)),
                Member(Str_data,
                       JObj(<<Member(Str_policy, e.data.policy),
                              Member(Str_test_inputs, e.data.test_inputs),
                              Member(Str_explanation, e.data.explanation),
                              Member(Str_timestamp, Timestamp)>>))>>)
    [] e.type = "policy_char" ->
         JObj(<<Member(Str_type, JStr(Str_policy \o Str_char_suffix)),
                Member(Str_data,
                       JObj(<<Member(Str_char, e.char), Member(Str_index, JNum(e.index)),
                              Member(Str_section, JStr(Str_policy))>>))>>)
    [] e.type = "explanation_char" ->
         JObj(<<Member(Str_type, JStr(Str_explanation \o Str_char_suffix)),
                Member(Str_data,
                       JObj(<<Member(Str_char, e.char), Member(Str_index, JNum(e.index)),
                              Member(Str_section, JStr(Str_explanation))>>))>>)
    [] OTHER ->
         JObj(<<Member(Str_type, JStr(Str_complete)),
                Member(Str_data, ResultObject(e.data))>>)

EventObjects(events) == [i \in 1..Len(events) |-> EventObject(events[i])]

DataPrefix == <<"d","a","t","a",":",SP>>

RECURSIVE SseBody(_)
\* events.map(event => `data: ${JSON.stringify(event)}\n\n`).join('')
SseBody(objects) ==
  IF objects = <<>> THEN <<>>
  ELSE DataPrefix \o Stringify(Head(objects)) \o <<NL, NL>> \o SseBody(Tail(objects))

RECURSIVE SplitLines(_, _)
\* s.split('\n') from position i on: the pieces between the newlines, the
\* last one being what follows the last newline (empty if s ends in one).
SplitLines(s, i) ==
  IF i + RunNotIn(s, i, {NL}) > Len(s) THEN <<From(s, i)>>
  ELSE <<SubSeq(s, i, i + RunNotIn(s, i, {NL}) - 1)>>
       \o SplitLines(s, i + RunNotIn(s, i, {NL}) + 1)

\* A reader that forgets the incomplete line.
KeptBuffer_Dropped(pieces) == <<>>

\* buffer = lines.pop() || ''
KeptBuffer(pieces) == pieces[Len(pieces)]

\* lines after lines.pop()
CompleteLines(pieces) == SubSeq(pieces, 1, Len(pieces) - 1)

\* JSON.parse(line.slice(6))
LineData(line) == JsonParseText(From(line, Len(DataPrefix) + 1))

\* The lines whose event reaches handleStreamingEvent: those that start with
\* 'data: ' and parse; a SyntaxError is caught and logged.
DataLines(lines) ==
  SelectSeq(lines, LAMBDA line : StartsWith(line, DataPrefix) /\ LineData(line).ok)

\* The events  for (const line of lines)  gives to handleStreamingEvent, in
\* the order of the lines.
Dispatched(lines) == [i \in 1..Len(lines) |-> LineData(lines[i]).v]

\* The read loop after reader.read() gave the next k characters of the body
\* and every line of pieces went through the loop.
AfterChunk(st, pieces, k) ==
  [st EXCEPT !.body = From(@, k + 1),
             !.buffer = KeptBuffer(pieces),
             !.dispatched = @ \o Dispatched(DataLines(CompleteLines(pieces))),
             !.cut = @ \/ KeptBuffer(pieces) # <<>>]

\* The policies of the records that are streamed.
RECURSIVE StreamPolicies(_)
StreamPolicies(n) ==
  IF n = 0 THEN {<<>>}
  ELSE StreamPolicies(n - 1) \cup {Append(p, NL) : p \in StreamPolicies(n - 1)}

StreamResults ==
  {Record(JStr(p), JStr(<<>>), JArr(<<>>)) : p \in StreamPolicies(MaxStreamPolicy)}

InitStream ==
  /\ pc = "stream"
  /\ req = NoRequest
  /\ agent = NewAgent
  /\ prompts = <<>>
  /\ calls = <<>>
  /\ failure = ""
  /\ result = NoRecord
  /\ response = NoResponse
  /\ served = 0
  /\ secret = "unknown"
  /\ raw = JUndef
  /\ client = NoClient
  /\ waited = 0
  /\ analyzed = <<>>
  /\ invocations = <<>>
  /\ interactions = <<>>
  /\ stream = NoStream

StreamUnchanged ==
  UNCHANGED <<pc, req, agent, prompts, calls, failure, result, response, served, secret, raw,
              client, waited, analyzed, invocations, interactions>>

\* The streaming handler answers with the body of the events of record r,
\* and the browser's fetch resolves.
SendBody(r) ==
  /\ pc = "stream"
  /\ stream.phase = "idle"
  /\ stream' = [NoStream EXCEPT !.phase = "reading",
                                !.sent = EventObjects(StreamEvents(r)),
                                !.body = SseBody(EventObjects(StreamEvents(r)))]
  /\ StreamUnchanged

\* reader.read() gives the next k characters of the body, for any k, and the
\* loop body runs: decode, split, pop, dispatch.
ReadSlice ==
  /\ pc = "stream"
  /\ stream.phase = "reading"
  /\ \E k \in 1..Len(stream.body) :
       stream' = AfterChunk(stream,
                            SplitLines(stream.buffer \o SubSeq(stream.body, 1, k), 1), k)
  /\ StreamUnchanged

\* reader.read() gives done.
ReadEnd ==
  /\ pc = "stream"
  /\ stream.phase = "reading"
  /\ stream.body = <<>>
  /\ stream' = [stream EXCEPT !.phase = "done"]
  /\ StreamUnchanged

NextStream ==
  \/ \E r \in StreamResults : SendBody(r)
  \/ ReadSlice
  \/ ReadEnd

SpecStream == InitStream /\ [][NextStream]_vars

\* s is the beginning of t.
IsPrefix(s, t) == Len(s) <= Len(t) /\ s = SubSeq(t, 1, Len(s))

\* C30: however the body is cut into chunks, the events the read loop has
\* dispatched are the first events the handler serialized, each once and in
\* the handler's order, and when the body is read to its end they are all
\* of them.
C30_ChunkingPreservesEvents ==
  /\ IsPrefix(stream.dispatched, stream.sent)
  /\ stream.phase = "done" => stream.dispatched = stream.sent

\* A body with a policy_char event was read to its end, and some chunk
\* ended inside a line.
C30_Witness ==
  /\ stream.phase = "done"
  /\ stream.cut
  /\ Len(stream.sent) >= 3
  /\ stream.dispatched = stream.sent

====
